---- MODULE Spec2Model ----
(***************************************************************************)
(* Verification model of the acp-client observation automation:            *)
(*   - TargetObservationExecutor.execute_target (retry loop, error         *)
(*     classification, monitoring)          app/lib/execution              *)
(*   - ACPImagingManager.start_imaging_plan  app/lib/core                  *)
(*   - NewMultiTargetOrchestrator.run_observation_sequence  app/lib        *)
(*   - the GUI TargetScheduler thread        ACP/gui/scheduler.py          *)
(* Error messages are represented by the set of classifier keywords that   *)
(* occur in them, which is all _get_error_type reads of a message.         *)
(***************************************************************************)
EXTENDS Integers, Sequences, FiniteSets, TLC

\* ------------------------------------------------------------------ bounds
MaxAttempts == 3
\* identities available for ScheduledTarget objects
MaxTargets == 3
\* number of targets in the queue when the scheduler is started
MaxInitTargets == 2
\* latest start time and latest clock value, in hours
MaxStart == 2
MaxTime == 3
\* number of targets in the configuration file of a run, and their priorities
MaxRunTargets == 2
MaxPriority == 2
MaxKeywords == 4
MaxOffset == 14
MaxClock == 16
\* number of threads start() can create
MaxThreads == 3
\* latest clock value of a wait for a start time, in seconds
MaxSeconds == 75
\* number of targets in a queue that is saved to a file
MaxSaved == 2
\* timedelta(hours=1) of should_skip_target
OneHour == 1
\* schedule.stop_time is None
NoTime == -1

TargetIds == 1..MaxTargets
\* current_target_index is None
NoIndex == 0

\* ScheduledTarget.status values: 等待中 执行中 已完成 已跳过 失败
Waiting == "Waiting"
Running == "Running"
Completed == "Completed"
Skipped == "Skipped"
Failed == "Failed"
Statuses == {Waiting, Running, Completed, Skipped, Failed}

\* -------------------------------------------------- messages and keywords
\* A Python value that is either None or a non-empty message.
NoneMsg == [some |-> FALSE, kws |-> {}]
Msg(k) == [some |-> TRUE, kws |-> k]

\* "[lba warning]The observatory is offline"        (src/test_retry_behavior.py:48)
WarnOffline == {"observatory", "offline"}
\* "Connection timeout while contacting server"
WarnConnTimeout == {"connection", "timeout", "server"}
\* "HTTP 401: access denied by ACP server"
WarnAuth == {"401", "access denied", "acp", "server"}
\* "Imaging plan rejected"
WarnPlan == {"imaging", "plan"}
\* "观测计划启动出现警告" / "启动成像计划重试次数耗尽": no keyword at all
WarnPlain == {}
ClientWarnings == {WarnOffline, WarnConnTimeout, WarnAuth, WarnPlan, WarnPlain}

\* "cannot unpack non-iterable bool object"
UnpackErrorKws == {}
\* "'filters'" / "'exposure'" (KeyError text of a malformed filter list)
PlanErrorKws == {}
\* "'TargetObservationExecutor' object has no attribute '_display_status'"
AttrErrorKws == {"observation", "status"}
\* "user_interrupted"
InterruptKws == {}

\* Keywords contributed by the target's name, which is part of the wrapped
\* start-failure message.
TargetNames == {"ic 405", "ngc 4013"}
NameKws(name) == IF name = "ngc 4013" THEN {"401"} ELSE {}

\* The same rules with the authentication rule tried last.
get_error_type_auth_last(error) ==
    LET e == error.kws IN
    IF "connection" \in e /\ "timeout" \in e THEN "connection_timeout"
    ELSE IF "acp" \in e /\ "server" \in e THEN "acp_server_error"
    ELSE IF "observatory" \in e /\ "offline" \in e THEN "observatory_offline"
    ELSE IF "meridian" \in e /\ "flip" \in e THEN "meridian_flip_failed"
    ELSE IF "observation" \in e /\ "timeout" \in e THEN "observation_timeout"
    ELSE IF "imaging" \in e /\ "plan" \in e THEN "imaging_plan_failed"
    ELSE IF "status" \in e /\ "check" \in e THEN "status_check_failed"
    ELSE IF "telescope" \in e /\ ("not responding" \in e \/ "error" \in e)
        THEN "telescope_error"
    ELSE IF "camera" \in e /\ ("error" \in e \/ "not found" \in e)
        THEN "camera_error"
    ELSE IF "401" \in e \/ "access denied" \in e \/ "invalid login" \in e
        THEN "authentication_failed"
    ELSE "unknown_error"

get_error_type(error) ==
    LET e == error.kws IN
    IF "401" \in e \/ "access denied" \in e \/ "invalid login" \in e
        THEN "authentication_failed"
    ELSE IF "connection" \in e /\ "timeout" \in e THEN "connection_timeout"
    ELSE IF "acp" \in e /\ "server" \in e THEN "acp_server_error"
    ELSE IF "observatory" \in e /\ "offline" \in e THEN "observatory_offline"
    ELSE IF "meridian" \in e /\ "flip" \in e THEN "meridian_flip_failed"
    ELSE IF "observation" \in e /\ "timeout" \in e THEN "observation_timeout"
    ELSE IF "imaging" \in e /\ "plan" \in e THEN "imaging_plan_failed"
    ELSE IF "status" \in e /\ "check" \in e THEN "status_check_failed"
    ELSE IF "telescope" \in e /\ ("not responding" \in e \/ "error" \in e)
        THEN "telescope_error"
    ELSE IF "camera" \in e /\ ("error" \in e \/ "not found" \in e)
        THEN "camera_error"
    ELSE "unknown_error"

\* The substrings _get_error_type looks for, in lower case as it writes them
Keywords ==
    {"401", "access denied", "invalid login", "connection", "timeout", "acp",
     "server", "observatory", "offline", "meridian", "flip", "observation",
     "imaging", "plan", "status", "check", "telescope", "not responding",
     "error", "camera", "not found"}

\* A message text: the keywords it contains and the letter case it is
\* written in.  The empty text also stands for str(None).
Styles == {"lower", "upper", "mixed"}
Texts ==
    {[words |-> w, style |-> st] :
        w \in {x \in SUBSET Keywords : Cardinality(x) <= MaxKeywords},
        st \in Styles}

\* str.lower() with its identity variant
str_lower_identity(text) == text
str_lower(text) == [words |-> text.words, style |-> "lower"]

\* kw in text: a case-sensitive substring test against a lower-case
\* keyword; digits have no case
Contains(text, kw) ==
    kw \in text.words /\ (text.style = "lower" \/ kw = "401")

\* error_lower = str(error).lower(), as the keywords the tests can find in it
error_lower(text) == {kw \in Keywords : Contains(str_lower(text), kw)}

\* --------------------------------------------------------- retry settings
DefaultRetryOnErrors ==
    {"connection_timeout", "acp_server_error", "meridian_flip_failed",
     "observation_timeout"}
RetryOnErrorsChoices ==
    { {}, DefaultRetryOnErrors,
      {"observatory_offline", "connection_timeout"},
      {"unknown_error", "observatory_offline"} }
DefaultRetryConfig ==
    [enabled |-> TRUE, max_attempts |-> 3,
     retry_on_errors |-> DefaultRetryOnErrors]
RetryConfigs ==
    [enabled : BOOLEAN, max_attempts : 0..MaxAttempts,
     retry_on_errors : RetryOnErrorsChoices]

VARIABLES
    \* ---- TargetObservationExecutor / ACPImagingManager / connection
    retry_config,     \* executor.retry_config
    target_name,      \* target.name of the target being executed
    filters_ok,       \* the target's filter list has exposure and count
    is_connected,     \* connection_manager.is_connected
    dryrun,           \* connection_manager.dryrun
    epc,              \* position inside execute_target
    attempt,          \* loop variable of execute_target
    success,          \* result of the last _execute_target_attempt
    last_error,       \* executor._last_error
    result,           \* value returned by execute_target
    sleeps,           \* number of time.sleep(retry_interval) calls
    calls,            \* number of imaging_manager.start_imaging_plan calls
    log,              \* one record per finished attempt
    \* ---- the observatory and the wall clock
    now,              \* datetime.now(), in hours
    stop_pending,     \* a stop was attempted since the last submission
    bare_submit,      \* some submission was not preceded by a stop attempt
    \* ---- ACP.gui.scheduler.TargetScheduler
    targets,          \* self.targets, as a list of ScheduledTarget identities
    start_time,       \* ScheduledTarget.start_time of each identity
    status,           \* ScheduledTarget.status of each identity
    current_target_index, \* self.current_target_index (0 stands for None)
    running,          \* self.running
    spc,              \* position of the scheduler thread
    sw_index,         \* target_index argument of _switch_to_target
    sw_target,        \* local "target" of _switch_to_target
    handed_off,       \* identities whose plan was submitted by the scheduler
    \* ---- NewMultiTargetOrchestrator.run_observation_sequence
    config_targets,   \* config.targets after _parse_config
    priority,         \* TargetConfig.priority of each identity
    stop_time,        \* config.schedule.stop_time (NoTime stands for None)
    rpc,              \* position in run_observation_sequence
    ridx,             \* index of the loop over config.targets
    attempted,        \* identities in the order the loop picked them
    returned,         \* identities whose loop iteration has ended
    skip_at_pick,     \* should_skip_target held for the current target when picked
    executed,         \* identities for which execute_target was called
    completed_targets, \* results['completed_targets']
    failed_targets,   \* results['failed_targets']
    target_results,   \* the 'success' field of each entry of results['target_results']
    \* ---- one call of a monitoring function of the executor
    m_fn,             \* "monitor_target_observation" or "_monitor_observation"
    mpc,              \* position in the monitoring loop
    m_status,         \* the status of the latest poll
    m_success,        \* result['success']
    m_error,          \* what result['error'] reports
    m_slept,          \* the loop has slept at least once since the call
    m_waited,         \* wait_for_meridian_flip was invoked during the call
    has_callbacks,    \* executor.status_callbacks is not empty
    has_manager,      \* executor.meridian_manager is set
    m_data,           \* enable_meridian_wait in the target's entry of the file
    m_target,         \* the target object handed to the monitoring function
    \* ---- one call of _get_error_type
    cpc,              \* "call" before, "done" after the call
    c_text,           \* the text of the error argument
    c_kind,           \* the value returned
    \* ---- one call of a MeridianFlipManager method
    f_pc,             \* position in the call
    f_dryrun,         \* manager.dryrun
    f_ra_ok,          \* the ra string parses
    f_delta,          \* ra_hours - lst, in minutes
    f_current_time,   \* the current_time argument, minutes since midnight
    f_now,            \* datetime.now(), minutes since that midnight
    f_info,           \* the dictionary of check_meridian_flip_needed
    f_ret,            \* the value returned by wait_for_meridian_flip
    \* ---- one call of TargetScheduler.should_skip_target (app/lib/scheduling)
    k_pc,             \* "call" before, "done" after the call
    k_start,          \* target.start_time
    k_now,            \* current_time
    k_stop,           \* global_stop_time, NoTime for None
    k_skip,           \* the value returned
    \* ---- TargetScheduler.start / stop and the threads they leave behind
    shutdown_event,   \* self.shutdown_event.is_set()
    loop_pc,          \* position of every _schedule_loop thread start() made
    issued,           \* threads whose pass sent a command to the client
    \* ---- NewMultiTargetOrchestrator.__init__ / _initialize_components
    retry_settings,   \* config.retry_settings as _parse_config stored it
    opc,              \* position of the orchestrator's construction
    \* ---- waiting for a target's start time: TargetScheduler._wait_until_time
    \* ---- (app) and MultiTargetOrchestrator.wait_for_target_time (scripts)
    w_pc,             \* position of the waiting call
    w_now,            \* datetime.now(), in seconds
    w_target_time,    \* target_time
    w_global_stop_time, \* global_stop_time, NoTime for None
    w_dryrun,         \* self.dryrun
    w_ret,            \* the value the wait returned
    w_wake,           \* end of the time.sleep in progress
    w_slept,          \* longest time.sleep asked for
    w_waited,         \* the call had to wait
    w_outcome,        \* what run() did with the target
    \* ---- TargetScheduler.save_to_file / load_from_file (ACP/gui)
    p_pc,             \* position: queue in memory, file written, file read
    p_queue,          \* self.targets before save_to_file
    p_file,           \* the JSON document of the file
    p_loaded          \* self.targets after load_from_file

execVars == <<retry_config, target_name, filters_ok, is_connected, dryrun,
              epc, attempt, success, last_error, result, sleeps, calls, log>>
envVars == <<now, stop_pending, bare_submit>>
schedVars == <<targets, start_time, status, current_target_index, running,
               spc, sw_index, sw_target, handed_off>>

runVars == <<config_targets, priority, stop_time, rpc, ridx, attempted,
             returned, skip_at_pick, executed, completed_targets,
             failed_targets, target_results>>
monVars == <<m_fn, mpc, m_status, m_success, m_error, m_slept, m_waited,
             has_callbacks, has_manager, m_data, m_target>>
clsVars == <<cpc, c_text, c_kind>>
merVars == <<f_pc, f_dryrun, f_ra_ok, f_delta, f_current_time, f_now, f_info,
             f_ret>>
skpVars == <<k_pc, k_start, k_now, k_stop, k_skip>>
lifeVars == <<shutdown_event, loop_pc, issued>>
orchVars == <<retry_settings, opc>>
persistVars == <<p_pc, p_queue, p_file, p_loaded>>
waitVars == <<w_pc, w_now, w_target_time, w_global_stop_time, w_dryrun, w_ret,
              w_wake, w_slept, w_waited, w_outcome>>

vars == <<execVars, envVars, schedVars, runVars, monVars, clsVars, merVars,
          skpVars, lifeVars, orchVars, waitVars, persistVars>>

\* ------------------------------------------- ACPImagingManager (app/lib/core)
\* What the HTTP client answers to a plan submission: accepted, refused with
\* a warning text, or an exception other than a request error.
ClientResponses ==
    {[raises |-> FALSE, ok |-> TRUE, kws |-> {}]}
    \cup {[raises |-> FALSE, ok |-> FALSE, kws |-> w] : w \in ClientWarnings}
    \cup {[raises |-> TRUE, ok |-> FALSE, kws |-> {}]}

\* ACPImagingManager.start_imaging_plan: ret = "bool" when the method returns
\* a bare True/False, "tuple" when it hands back the client's (ok, message).
\* stopped: stop_current_operation was called; submitted: the plan was posted.
start_imaging_plan(connected, dry, resp) ==
    IF ~connected
        THEN [ret |-> "bool", ok |-> FALSE, kws |-> {},
              stopped |-> FALSE, submitted |-> FALSE]
    ELSE IF dry
        THEN [ret |-> "bool", ok |-> TRUE, kws |-> {},
              stopped |-> TRUE, submitted |-> FALSE]
    ELSE IF resp.raises
        THEN [ret |-> "bool", ok |-> FALSE, kws |-> {},
              stopped |-> TRUE, submitted |-> TRUE]
    ELSE [ret |-> "tuple", ok |-> resp.ok, kws |-> resp.kws,
          stopped |-> TRUE, submitted |-> TRUE]

\* ACPConnectionManager after connect() (live or dry run) or a failed connect
ConnectionStates ==
    {[is_connected |-> TRUE, dryrun |-> FALSE],
     [is_connected |-> TRUE, dryrun |-> TRUE],
     [is_connected |-> FALSE, dryrun |-> FALSE]}

\* ------------------------------------------------ TargetObservationExecutor
PollStatuses == {"running", "complete", "error"}

\* _monitor_observation: the first poll always differs from last_status
\* (None), so the callbacks run and then self._display_status is called, a
\* method the class does not define: the AttributeError reaches the generic
\* handler.  A KeyboardInterrupt during the poll reaches the other handler.
monitor_observation(poll, intr) ==
    IF intr
        THEN [success |-> FALSE, error |-> Msg(InterruptKws)]
        ELSE [success |-> FALSE, error |-> Msg(AttrErrorKws)]

\* Variant that does not read retry_enabled.
AttemptsExhausted_enabled_ignored(cfg, n) ==
    n >= cfg.max_attempts

\* Off-by-one variant of the attempt bound (breaks one attempt early).
AttemptsExhausted_early(cfg, n) ==
    ~cfg.enabled \/ n + 1 >= cfg.max_attempts

\* line 113: if not retry_enabled or attempt >= max_attempts: break
AttemptsExhausted(cfg, n) ==
    ~cfg.enabled \/ n >= cfg.max_attempts

\* Variant that never looks at the error kind.
ErrorNotRetryable_ignored(cfg, err) == FALSE

\* lines 117-122: break when the classified error is not configured
ErrorNotRetryable(cfg, err) ==
    /\ err.some
    /\ cfg.retry_on_errors # {}
    /\ get_error_type(err) \notin cfg.retry_on_errors

\* raw: the error message start_imaging_plan returned, before the attempt
\* wrapped it (NoneMsg when the attempt did not get one).
LogEntry(called, accepted, ok, err, poll, intr, raw) ==
    [called |-> called, accepted |-> accepted, ok |-> ok, raw |-> raw,
     kind |-> IF ok THEN "" ELSE get_error_type(err),
     poll |-> poll, intr |-> intr]

\* execute_target entered: range(1, max_attempts + 1) may be empty
BeginExecute ==
    /\ epc = "call"
    /\ IF retry_config.max_attempts >= 1
          THEN /\ epc' = "attempt"
               /\ attempt' = 1
               /\ UNCHANGED result
          ELSE /\ epc' = "done"
               /\ result' = FALSE
               /\ UNCHANGED attempt
    /\ UNCHANGED <<retry_config, target_name, filters_ok, is_connected, dryrun,
                   success, last_error, sleeps, calls, log>>
    /\ UNCHANGED <<envVars, schedVars, runVars, monVars, clsVars, merVars, skpVars, lifeVars, orchVars, waitVars, persistVars>>

\* lines 99-103: the sleep before every attempt after the first
RetrySleep ==
    /\ epc = "sleep"
    /\ sleeps' = sleeps + 1
    /\ epc' = "attempt"
    /\ UNCHANGED <<retry_config, target_name, filters_ok, is_connected, dryrun,
                   attempt, success, last_error, result, calls, log>>
    /\ UNCHANGED <<envVars, schedVars, runVars, monVars, clsVars, merVars, skpVars, lifeVars, orchVars, waitVars, persistVars>>

\* _execute_target_attempt up to the return of start_imaging_plan
StartAttempt ==
    /\ epc = "attempt"
    /\ \E resp \in ClientResponses :
        IF ~filters_ok
        THEN \* create_imaging_plan raises; caught at line 207
             /\ last_error' = Msg(PlanErrorKws)
             /\ success' = FALSE
             /\ log' = Append(log, LogEntry(FALSE, FALSE, FALSE,
                                            Msg(PlanErrorKws), "none", FALSE,
                                            NoneMsg))
             /\ epc' = "check"
             /\ UNCHANGED <<calls, stop_pending, bare_submit>>
        ELSE LET r == start_imaging_plan(is_connected, dryrun, resp) IN
             /\ calls' = calls + 1
             /\ bare_submit' = (bare_submit \/ (r.submitted /\ ~r.stopped))
             /\ stop_pending' = IF r.submitted THEN FALSE
                                ELSE (stop_pending \/ r.stopped)
             /\ IF r.ret = "bool"
                THEN \* "success, error_msg = <bool>" raises TypeError
                     /\ last_error' = Msg(UnpackErrorKws)
                     /\ success' = FALSE
                     /\ log' = Append(log, LogEntry(TRUE, r.ok, FALSE,
                                            Msg(UnpackErrorKws), "none", FALSE,
                                            NoneMsg))
                     /\ epc' = "check"
                ELSE IF r.ok
                THEN /\ epc' = "monitor"
                     /\ UNCHANGED <<last_error, success, log>>
                ELSE LET m == Msg(NameKws(target_name) \cup r.kws) IN
                     /\ last_error' = m
                     /\ success' = FALSE
                     /\ log' = Append(log, LogEntry(TRUE, FALSE, FALSE, m,
                                                    "none", FALSE,
                                                    Msg(r.kws)))
                     /\ epc' = "check"
    /\ UNCHANGED <<retry_config, target_name, filters_ok, is_connected, dryrun,
                   attempt, result, sleeps>>
    /\ UNCHANGED <<now, schedVars, runVars, monVars, clsVars, merVars, skpVars, lifeVars, orchVars, waitVars, persistVars>>

\* lines 192-199: monitoring of an accepted plan
MonitorAttempt ==
    /\ epc = "monitor"
    /\ \E poll \in PollStatuses, intr \in BOOLEAN :
        LET mr == monitor_observation(poll, intr) IN
        /\ success' = mr.success
        /\ last_error' = IF mr.success THEN last_error ELSE mr.error
        /\ log' = Append(log, LogEntry(TRUE, TRUE, mr.success, mr.error,
                                       poll, intr, NoneMsg))
    /\ epc' = "check"
    /\ UNCHANGED <<retry_config, target_name, filters_ok, is_connected, dryrun,
                   attempt, result, sleeps, calls>>
    /\ UNCHANGED <<envVars, schedVars, runVars, monVars, clsVars, merVars, skpVars, lifeVars, orchVars, waitVars, persistVars>>

\* lines 107-122: return, break or go round again
CheckRetry ==
    /\ epc = "check"
    /\ IF success
          THEN /\ result' = TRUE
               /\ epc' = "done"
               /\ UNCHANGED attempt
       ELSE IF AttemptsExhausted(retry_config, attempt)
               \/ ErrorNotRetryable(retry_config, last_error)
          THEN /\ result' = FALSE
               /\ epc' = "done"
               /\ UNCHANGED attempt
          ELSE /\ attempt' = attempt + 1
               /\ epc' = "sleep"
               /\ UNCHANGED result
    /\ UNCHANGED <<retry_config, target_name, filters_ok, is_connected, dryrun,
                   success, last_error, sleeps, calls, log>>
    /\ UNCHANGED <<envVars, schedVars, runVars, monVars, clsVars, merVars, skpVars, lifeVars, orchVars, waitVars, persistVars>>

\* The clock and the observatory before anything was sent to it.
EnvStart ==
    /\ now = 0
    /\ stop_pending = FALSE
    /\ bare_submit = FALSE

\* A TargetScheduler that was constructed and never used.
SchedIdle ==
    /\ targets = <<>>
    /\ status = [n \in TargetIds |-> Waiting]
    /\ current_target_index = NoIndex
    /\ running = FALSE
    /\ spc = "idle"
    /\ sw_index = NoIndex
    /\ sw_target = NoIndex
    /\ handed_off = {}

\* A status that was not polled yet (last_status = None).
NoStatus == [is_running |-> FALSE, error |-> FALSE, meridian_status |-> "",
             wait_needed |-> FALSE, polled |-> FALSE]

\* The enable_meridian_wait key of a target's entry in the configuration
\* file, and "nofile" for a target object that was not loaded from a file.
FileFlags == {"absent", "true", "false"}

\* TargetConfig.from_dict: the dataclass has no enable_meridian_wait field and
\* from_dict does not read the key, so the object has no such attribute.
from_dict(data) ==
    [has_enable_meridian_wait |-> FALSE, enable_meridian_wait |-> TRUE]

\* Target objects built directly by a caller, carrying the attribute.
DirectTargets ==
    {[has_enable_meridian_wait |-> TRUE, enable_meridian_wait |-> b] :
        b \in BOOLEAN}

\* No monitoring call and no classification in progress.
MonIdle ==
    /\ m_fn = "monitor_target_observation"
    /\ mpc = "idle"
    /\ m_status = NoStatus
    /\ m_success = TRUE
    /\ m_error = "none"
    /\ m_slept = FALSE
    /\ m_waited = FALSE
    /\ has_callbacks = FALSE
    /\ has_manager = FALSE
    /\ m_data = "nofile"
    /\ m_target = from_dict("absent")

\* No should_skip_target call in progress.
SkpIdle ==
    /\ k_pc = "idle"
    /\ k_start = 0
    /\ k_now = 0
    /\ k_stop = NoTime
    /\ k_skip = FALSE

ThreadIds == 1..MaxThreads

\* A scheduler that was never started: the event is clear and there is no
\* loop thread.
LifeIdle ==
    /\ shutdown_event = FALSE
    /\ loop_pc = [t \in ThreadIds |-> "none"]
    /\ issued = {}

\* raw_config.get('retry_settings', {}): the section of the file, or the empty
\* dict when the file has none.
NoRetrySettings == [present |-> FALSE, cfg |-> DefaultRetryConfig]
RetrySettings ==
    {NoRetrySettings} \cup {[present |-> TRUE, cfg |-> c] : c \in RetryConfigs}

\* No wait for a start time in progress.
WaitIdle ==
    /\ w_pc = "idle"
    /\ w_now = 0
    /\ w_target_time = 0
    /\ w_global_stop_time = NoTime
    /\ w_dryrun = FALSE
    /\ w_ret = "none"
    /\ w_wake = 0
    /\ w_slept = 0
    /\ w_waited = FALSE
    /\ w_outcome = "none"

\* No queue file being written or read.
PersistIdle ==
    /\ p_pc = "idle"
    /\ p_queue = <<>>
    /\ p_file = <<>>
    /\ p_loaded = <<>>

\* No orchestrator under construction.
OrchIdle ==
    /\ retry_settings = NoRetrySettings
    /\ opc = "idle"

\* No MeridianFlipManager call in progress.
NoInfo ==
    [status |-> "", wait_needed |-> FALSE, has_wait_until |-> FALSE,
     wait_until |-> 0, stop_time |-> 0, meridian_time |-> 0, resume_time |-> 0]
MerIdle ==
    /\ f_pc = "idle"
    /\ f_dryrun = FALSE
    /\ f_ra_ok = TRUE
    /\ f_delta = 0
    /\ f_current_time = 0
    /\ f_now = 0
    /\ f_info = NoInfo
    /\ f_ret = "none"

ClsIdle ==
    /\ cpc = "idle"
    /\ c_text = [words |-> {}, style |-> "lower"]
    /\ c_kind = ""

\* An orchestrator whose run_observation_sequence was not called.
RunIdle ==
    /\ config_targets = <<>>
    /\ priority = [n \in TargetIds |-> 1]
    /\ stop_time = NoTime
    /\ rpc = "idle"
    /\ ridx = 0
    /\ attempted = <<>>
    /\ returned = {}
    /\ skip_at_pick = FALSE
    /\ executed = {}
    /\ completed_targets = 0
    /\ failed_targets = 0
    /\ target_results = <<>>

InitExec ==
    /\ retry_config \in RetryConfigs
    /\ target_name \in TargetNames
    /\ filters_ok \in BOOLEAN
    /\ \E c \in ConnectionStates :
          /\ is_connected = c.is_connected
          /\ dryrun = c.dryrun
    /\ epc = "call"
    /\ attempt = 0
    /\ success = FALSE
    /\ last_error = NoneMsg
    /\ result = FALSE
    /\ sleeps = 0
    /\ calls = 0
    /\ log = <<>>
    /\ EnvStart
    /\ SchedIdle
    /\ start_time = [n \in TargetIds |-> 0]
    /\ RunIdle
    /\ MonIdle
    /\ ClsIdle
    /\ MerIdle
    /\ SkpIdle
    /\ LifeIdle
    /\ OrchIdle
    /\ WaitIdle
    /\ PersistIdle

NextExec ==
    \/ BeginExecute
    \/ RetrySleep
    \/ StartAttempt
    \/ MonitorAttempt
    \/ CheckRetry

SpecExec == InitExec /\ [][NextExec]_vars

\* ------------------------------------------- ACP/gui/scheduler.TargetScheduler
Min(S) == CHOOSE x \in S : \A y \in S : x <= y

\* list.sort(key=lambda t: t.start_time): a stable sort, written as the
\* insertion of each element behind every element that is not later than it.
InsertStable(sorted, n, st) ==
    LET k == Cardinality({i \in 1..Len(sorted) : st[sorted[i]] <= st[n]}) IN
    SubSeq(sorted, 1, k) \o <<n>> \o SubSeq(sorted, k + 1, Len(sorted))

RECURSIVE SortByStart(_, _)
SortByStart(seq, st) ==
    IF seq = <<>> THEN <<>>
    ELSE InsertStable(SortByStart(SubSeq(seq, 1, Len(seq) - 1), st),
                      seq[Len(seq)], st)

\* _schedule_loop, lines 83-93: the first index whose target is neither
\* Completed nor Skipped and whose start time has come (NoIndex: none).
FirstDue(tgts, sts, stt, t) ==
    LET due == {i \in 1..Len(tgts) :
                   /\ sts[tgts[i]] \notin {Completed, Skipped}
                   /\ t >= stt[tgts[i]]} IN
    IF due = {} THEN NoIndex ELSE Min(due)

\* add_target, called from the UI thread at any time
AddTarget ==
    /\ spc # "idle"
    /\ Len(targets) < MaxTargets
    /\ \E t \in 0..MaxStart :
        LET n == Len(targets) + 1
            st == [start_time EXCEPT ![n] = t] IN
        /\ start_time' = st
        /\ status' = [status EXCEPT ![n] = Waiting]
        /\ targets' = SortByStart(Append(targets, n), st)
    /\ UNCHANGED <<current_target_index, running, spc, sw_index, sw_target,
                   handed_off>>
    /\ UNCHANGED <<execVars, envVars, runVars, monVars, clsVars, merVars, skpVars, lifeVars, orchVars, waitVars, persistVars>>

\* one pass of the while loop of _schedule_loop, up to the call of
\* _switch_to_target and its test of current_target_index
SchedulePass ==
    /\ spc = "pass"
    /\ running
    /\ LET i == FirstDue(targets, status, start_time, now) IN
       IF i # NoIndex
       THEN IF current_target_index # i
            THEN /\ sw_index' = i
                 /\ sw_target' = targets[i]
                 /\ spc' = IF current_target_index # NoIndex
                              THEN "stop" ELSE "start"
                 /\ UNCHANGED <<status, current_target_index>>
            ELSE UNCHANGED <<status, current_target_index, spc, sw_index,
                             sw_target>>
       ELSE IF current_target_index # NoIndex
            THEN /\ status' = [status EXCEPT
                                 ![targets[current_target_index]] = Completed]
                 /\ current_target_index' = NoIndex
                 /\ UNCHANGED <<spc, sw_index, sw_target>>
            ELSE UNCHANGED <<status, current_target_index, spc, sw_index,
                             sw_target>>
    /\ UNCHANGED <<targets, start_time, running, handed_off>>
    /\ UNCHANGED <<execVars, envVars, runVars, monVars, clsVars, merVars, skpVars, lifeVars, orchVars, waitVars, persistVars>>

\* _switch_to_target, lines 116-121: stop the task in progress
SwitchStop ==
    /\ spc = "stop"
    /\ \E raises \in BOOLEAN :
        LET old_target == targets[current_target_index] IN
        IF raises
        THEN \* handler at line 155
             /\ status' = [status EXCEPT ![sw_target] = Failed]
             /\ spc' = "pass"
        ELSE /\ status' = [status EXCEPT ![old_target] = Completed]
             /\ spc' = "start"
    /\ stop_pending' = TRUE
    /\ UNCHANGED <<targets, start_time, current_target_index, running,
                   sw_index, sw_target, handed_off>>
    /\ UNCHANGED <<execVars, now, bare_submit, runVars, monVars, clsVars, merVars, skpVars, lifeVars, orchVars, waitVars, persistVars>>

\* _switch_to_target, lines 123-144: mark the skipped, mark the new target
\* Running, record its index, submit its plan
SwitchStart ==
    /\ spc = "start"
    /\ status' = [n \in TargetIds |->
                    IF n = sw_target THEN Running
                    ELSE IF \E i \in 1..Len(targets) :
                               i < sw_index /\ targets[i] = n
                               /\ status[n] = Waiting
                         THEN Skipped
                         ELSE status[n]]
    /\ current_target_index' = sw_index
    /\ handed_off' = handed_off \cup {sw_target}
    /\ bare_submit' = (bare_submit \/ ~stop_pending)
    /\ stop_pending' = FALSE
    /\ spc' = "result"
    /\ UNCHANGED <<targets, start_time, running, sw_index, sw_target>>
    /\ UNCHANGED <<execVars, now, runVars, monVars, clsVars, merVars, skpVars, lifeVars, orchVars, waitVars, persistVars>>

\* _switch_to_target, lines 146-158: the client's answer
SwitchResult ==
    /\ spc = "result"
    /\ \E ok \in BOOLEAN :
        status' = IF ok THEN status
                  ELSE [status EXCEPT ![sw_target] = Failed]
    /\ spc' = "pass"
    /\ UNCHANGED <<targets, start_time, current_target_index, running,
                   sw_index, sw_target, handed_off>>
    /\ UNCHANGED <<execVars, envVars, runVars, monVars, clsVars, merVars, skpVars, lifeVars, orchVars, waitVars, persistVars>>

\* the wall clock
Tick ==
    /\ now < MaxTime
    /\ now' = now + 1
    /\ UNCHANGED <<stop_pending, bare_submit>>
    /\ UNCHANGED <<execVars, schedVars, runVars, monVars, clsVars, merVars, skpVars, lifeVars, orchVars, waitVars, persistVars>>

\* An executor that is not in use.
ExecIdle ==
    /\ retry_config = DefaultRetryConfig
    /\ target_name = "ic 405"
    /\ filters_ok = TRUE
    /\ is_connected = TRUE
    /\ dryrun = FALSE
    /\ epc = "idle"
    /\ attempt = 0
    /\ success = FALSE
    /\ last_error = NoneMsg
    /\ result = FALSE
    /\ sleeps = 0
    /\ calls = 0
    /\ log = <<>>

\* The scheduler after load_from_file (or a series of add_target) and start():
\* a sorted queue of 1..MaxInitTargets targets with the statuses the file
\* holds, at most one of them Running.
InitSched ==
    /\ ExecIdle
    /\ EnvStart
    /\ RunIdle
    /\ MonIdle
    /\ ClsIdle
    /\ MerIdle
    /\ SkpIdle
    /\ LifeIdle
    /\ OrchIdle
    /\ WaitIdle
    /\ PersistIdle
    /\ \E k \in 1..MaxInitTargets :
       \E st \in [1..k -> 0..MaxStart], ss \in [1..k -> Statuses] :
          /\ \A i \in 1..k, j \in 1..k : i < j => st[i] <= st[j]
          /\ Cardinality({i \in 1..k : ss[i] = Running}) <= 1
          /\ targets = [i \in 1..k |-> i]
          /\ start_time = [n \in TargetIds |-> IF n <= k THEN st[n] ELSE 0]
          /\ status = [n \in TargetIds |-> IF n <= k THEN ss[n] ELSE Waiting]
    /\ current_target_index = NoIndex
    /\ running = TRUE
    /\ spc = "pass"
    /\ sw_index = NoIndex
    /\ sw_target = NoIndex
    /\ handed_off = {}

SchedThread == SchedulePass \/ SwitchStop \/ SwitchStart \/ SwitchResult

NextSched ==
    \/ AddTarget
    \/ SchedulePass
    \/ SwitchStop
    \/ SwitchStart
    \/ SwitchResult
    \/ Tick

SpecSched == InitSched /\ [][NextSched]_vars

\* The scheduler thread keeps running its loop (one pass every
\* CHECK_INTERVAL seconds) and the clock keeps advancing.
SpecSchedFair ==
    InitSched /\ [][NextSched]_vars /\ WF_vars(SchedThread) /\ WF_vars(Tick)

\* ----------------------- NewMultiTargetOrchestrator.run_observation_sequence
\* Comparison by start time alone.
KeyLeq_start_only(a, b, st, pr) == st[a] <= st[b]

\* key=lambda x: (x.start_time, x.priority), config_manager.py line 328
KeyLeq(a, b, st, pr) ==
    st[a] < st[b] \/ (st[a] = st[b] /\ pr[a] <= pr[b])

InsertByKey(sorted, n, st, pr) ==
    LET k == Cardinality({i \in 1..Len(sorted) : KeyLeq(sorted[i], n, st, pr)})
    IN SubSeq(sorted, 1, k) \o <<n>> \o SubSeq(sorted, k + 1, Len(sorted))

\* _parse_config: self.targets.sort(...), a stable sort of the file's list
RECURSIVE parse_config_sort(_, _, _)
parse_config_sort(seq, st, pr) ==
    IF seq = <<>> THEN <<>>
    ELSE InsertByKey(parse_config_sort(SubSeq(seq, 1, Len(seq) - 1), st, pr),
                     seq[Len(seq)], st, pr)

\* schedule.stop_time of the file: absent, not later than any start time, or
\* the latest start time
StopTimes == {NoTime, 0, MaxStart}

\* The same test with a target exactly one hour late counted as expired.
should_skip_target_inclusive(start, current_time, global_stop_time) ==
    \/ current_time >= start + OneHour
    \/ (global_stop_time # NoTime /\ start >= global_stop_time)

\* TargetScheduler.should_skip_target(target, current_time, global_stop_time)
should_skip_target(start, current_time, global_stop_time) ==
    \/ current_time > start + OneHour
    \/ (global_stop_time # NoTime /\ start >= global_stop_time)

\* target.name of the targets of the file
TargetNameOf(n) == IF n % 2 = 0 THEN "ngc 4013" ELSE "ic 405"

\* Variant that goes on to the targets without a connection.
AfterConnect_continue(ok) == "next"

\* lines 296-303: a failed connect() returns the summary at once
AfterConnect(ok) == IF ok THEN "next" ELSE "end"

\* lines 296-304: connection_manager.connect(); a dry run always connects
RunConnect ==
    /\ rpc = "connect"
    /\ \E ok \in BOOLEAN :
        /\ (dryrun => ok)
        /\ is_connected' = ok
        /\ rpc' = AfterConnect(ok)
    /\ UNCHANGED <<retry_config, target_name, filters_ok, dryrun, epc, attempt,
                   success, last_error, result, sleeps, calls, log>>
    /\ UNCHANGED <<config_targets, priority, stop_time, ridx, attempted,
                   returned, skip_at_pick, executed, completed_targets,
                   failed_targets, target_results>>
    /\ UNCHANGED <<envVars, schedVars, monVars, clsVars, merVars, skpVars, lifeVars, orchVars, waitVars, persistVars>>

\* line 313: the for loop takes the next target, or ends and disconnects
RunPick ==
    /\ rpc = "next"
    /\ IF ridx < Len(config_targets)
       THEN LET t == config_targets[ridx + 1] IN
            /\ ridx' = ridx + 1
            /\ attempted' = Append(attempted, t)
            /\ skip_at_pick' = should_skip_target(start_time[t], now, stop_time)
            /\ rpc' = "wait"
            /\ UNCHANGED is_connected
       ELSE /\ rpc' = "end"
            /\ is_connected' = FALSE
            /\ UNCHANGED <<ridx, attempted, skip_at_pick>>
    /\ UNCHANGED <<retry_config, target_name, filters_ok, dryrun, epc, attempt,
                   success, last_error, result, sleeps, calls, log>>
    /\ UNCHANGED <<config_targets, priority, stop_time, returned, executed,
                   completed_targets, failed_targets, target_results>>
    /\ UNCHANGED <<envVars, schedVars, monVars, clsVars, merVars, skpVars, lifeVars, orchVars, waitVars, persistVars>>

\* lines 319 and 325: wait_for_target_time(target), called without a global
\* stop time, returns True once the start time has come (at once in a dry
\* run); execute_target is then called for the target.  The filters of every
\* target were already summed by calculate_schedule_summary (line 290), which
\* raises out of the run on a filter without 'exposure' or 'count'.
RunWait ==
    /\ rpc = "wait"
    /\ LET t == config_targets[ridx] IN
        /\ (now >= start_time[t] \/ dryrun)
        /\ executed' = executed \cup {t}
    /\ target_name' = TargetNameOf(config_targets[ridx])
    /\ filters_ok' = TRUE
    /\ epc' = "call"
    /\ rpc' = "execute"
    /\ UNCHANGED <<retry_config, is_connected, dryrun, attempt, success,
                   last_error, result, sleeps, calls, log>>
    /\ UNCHANGED <<config_targets, priority, stop_time, ridx, attempted,
                   returned, skip_at_pick, completed_targets, failed_targets,
                   target_results>>
    /\ UNCHANGED <<envVars, schedVars, monVars, clsVars, merVars, skpVars, lifeVars, orchVars, waitVars, persistVars>>

\* Variant in which a failed target ends the loop.
NextAfterTarget_abort(failed) == IF failed THEN "end" ELSE "next"

\* lines 322, 328 and 353: "continue", or the end of the loop body, whether
\* the target failed or not
NextAfterTarget(failed) == "next"

\* lines 325-344: execute_target has returned.  On False the target is counted
\* failed and the loop continues (no entry is added to target_results); on
\* True the observation is monitored, counted by its outcome and recorded.
\* The executor's locals and the per-call history end with the call.
RunAfterExecute ==
    /\ rpc = "execute"
    /\ epc = "done"
    /\ \E observed \in BOOLEAN :
        IF ~result
        THEN /\ failed_targets' = failed_targets + 1
             /\ rpc' = NextAfterTarget(TRUE)
             /\ UNCHANGED <<completed_targets, target_results>>
        ELSE /\ completed_targets' =
                  IF observed THEN completed_targets + 1 ELSE completed_targets
             /\ failed_targets' =
                  IF observed THEN failed_targets ELSE failed_targets + 1
             /\ target_results' = Append(target_results, observed)
             /\ rpc' = NextAfterTarget(~observed)
    /\ returned' = returned \cup {config_targets[ridx]}
    /\ epc' = "idle"
    /\ attempt' = 0
    /\ success' = FALSE
    /\ result' = FALSE
    /\ sleeps' = 0
    /\ calls' = 0
    /\ log' = <<>>
    /\ UNCHANGED <<retry_config, target_name, filters_ok, is_connected, dryrun,
                   last_error>>
    /\ skip_at_pick' = FALSE
    /\ UNCHANGED <<config_targets, priority, stop_time, ridx, attempted,
                   executed>>
    /\ UNCHANGED <<envVars, schedVars, monVars, clsVars, merVars, skpVars, lifeVars, orchVars, waitVars, persistVars>>

\* Ctrl+C while the run waits for a start time or sleeps between two attempts:
\* KeyboardInterrupt is no Exception, so the handler at line 345 lets it pass;
\* main() (new_main.py lines 112-114) catches it and returns without cleanup.
RunInterrupt ==
    /\ \/ rpc = "wait"
       \/ (rpc = "execute" /\ epc = "sleep")
    /\ rpc' = "aborted"
    /\ epc' = "idle"
    /\ UNCHANGED <<retry_config, target_name, filters_ok, is_connected, dryrun,
                   attempt, success, last_error, result, sleeps, calls, log>>
    /\ UNCHANGED <<config_targets, priority, stop_time, ridx, attempted,
                   returned, skip_at_pick, executed, completed_targets,
                   failed_targets, target_results>>
    /\ UNCHANGED <<envVars, schedVars, monVars, clsVars, merVars, skpVars, lifeVars, orchVars, waitVars, persistVars>>

\* The orchestrator constructed from a configuration file of 1..MaxRunTargets
\* targets, listed in any order, with or without a global stop time.
InitRun ==
    /\ retry_config = DefaultRetryConfig
    /\ target_name = "ic 405"
    /\ filters_ok = TRUE
    /\ is_connected = FALSE
    /\ dryrun \in BOOLEAN
    /\ epc = "idle"
    /\ attempt = 0
    /\ success = FALSE
    /\ last_error = NoneMsg
    /\ result = FALSE
    /\ sleeps = 0
    /\ calls = 0
    /\ log = <<>>
    /\ EnvStart
    /\ SchedIdle
    /\ MonIdle
    /\ ClsIdle
    /\ MerIdle
    /\ SkpIdle
    /\ LifeIdle
    /\ OrchIdle
    /\ WaitIdle
    /\ PersistIdle
    /\ \E k \in 1..MaxRunTargets :
       \E st \in [1..k -> 0..MaxStart], pr \in [1..k -> 1..MaxPriority] :
          /\ start_time = [n \in TargetIds |-> IF n <= k THEN st[n] ELSE 0]
          /\ priority = [n \in TargetIds |-> IF n <= k THEN pr[n] ELSE 1]
          /\ config_targets = parse_config_sort([i \in 1..k |-> i],
                                 [n \in TargetIds |-> IF n <= k THEN st[n] ELSE 0],
                                 [n \in TargetIds |-> IF n <= k THEN pr[n] ELSE 1])
    /\ stop_time \in StopTimes
    /\ rpc = "connect"
    /\ ridx = 0
    /\ attempted = <<>>
    /\ returned = {}
    /\ skip_at_pick = FALSE
    /\ executed = {}
    /\ completed_targets = 0
    /\ failed_targets = 0
    /\ target_results = <<>>

NextRun ==
    \/ RunConnect
    \/ RunPick
    \/ RunWait
    \/ BeginExecute
    \/ RetrySleep
    \/ StartAttempt
    \/ MonitorAttempt
    \/ CheckRetry
    \/ RunAfterExecute
    \/ RunInterrupt
    \/ Tick

SpecRun == InitRun /\ [][NextRun]_vars

\* ------------------- TargetObservationExecutor: the two monitoring functions
\* ACPConnectionManager.get_status: the dictionaries it can return.  The ones
\* that carry 'error' have no 'is_running' key, which reads as False.
get_status(connected, dry) ==
    IF dry THEN {[is_running |-> FALSE, error |-> FALSE]}
    ELSE IF ~connected THEN {[is_running |-> FALSE, error |-> TRUE]}
    ELSE {[is_running |-> TRUE, error |-> FALSE],
          [is_running |-> FALSE, error |-> FALSE],
          [is_running |-> FALSE, error |-> TRUE]}

\* What check_meridian_flip_needed can answer: status and wait_needed
MeridianAnswers ==
    {[status |-> "before_window", wait_needed |-> FALSE],
     [status |-> "stop_before_meridian", wait_needed |-> TRUE],
     [status |-> "wait_after_meridian", wait_needed |-> TRUE],
     [status |-> "after_window", wait_needed |-> FALSE],
     [status |-> "error", wait_needed |-> FALSE]}

\* _check_meridian_flip: disabled for a target whose enable_meridian_wait
\* attribute exists and is false; else the manager's answer; else the
\* default dictionary, which has no status
check_meridian_flip(target, manager) ==
    IF target.has_enable_meridian_wait /\ ~target.enable_meridian_wait
    THEN {[status |-> "disabled", wait_needed |-> FALSE]}
    ELSE IF manager THEN MeridianAnswers
    ELSE {[status |-> "", wait_needed |-> FALSE]}

\* _get_observation_status: the ACP status plus the answer of
\* _check_meridian_flip
ObservationStatuses(connected, dry, manager, target) ==
    {[is_running |-> a.is_running, error |-> a.error,
      meridian_status |-> mi.status, wait_needed |-> mi.wait_needed,
      polled |-> TRUE] :
        a \in get_status(connected, dry),
        mi \in check_meridian_flip(target, manager)}

\* is_completed / has_error of _get_observation_status, as a poll outcome
PollKind(st) ==
    IF st.error THEN "error"
    ELSE IF st.is_running THEN "running" ELSE "complete"

\* One call of _monitor_observation, from its first poll to its return.
MonInner ==
    /\ mpc = "poll"
    /\ m_fn = "_monitor_observation"
    /\ \E st \in ObservationStatuses(is_connected, dryrun, has_manager, m_target),
          intr \in BOOLEAN :
        LET r == monitor_observation(PollKind(st), intr) IN
        /\ m_status' = st
        /\ m_success' = r.success
        /\ m_error' = IF r.success THEN "none"
                      ELSE IF intr THEN "user_interrupted"
                      ELSE "attribute_error"
    /\ mpc' = "done"
    /\ UNCHANGED <<m_fn, m_slept, m_waited, has_callbacks, has_manager>>
    /\ UNCHANGED <<m_data, m_target>>
    /\ UNCHANGED <<execVars, envVars, schedVars, runVars, clsVars, merVars, skpVars, lifeVars, orchVars, waitVars, persistVars>>

\* monitor_target_observation, lines 488-491: a poll
MonPoll ==
    /\ mpc = "poll"
    /\ m_fn = "monitor_target_observation"
    /\ m_status' \in ObservationStatuses(is_connected, dryrun, has_manager, m_target)
    /\ mpc' = "callbacks"
    /\ UNCHANGED <<m_fn, m_success, m_error, m_slept, m_waited, has_callbacks,
                   has_manager>>
    /\ UNCHANGED <<m_data, m_target>>
    /\ UNCHANGED <<execVars, envVars, schedVars, runVars, clsVars, merVars, skpVars, lifeVars, orchVars, waitVars, persistVars>>

\* lines 493-495: the callbacks are called outside any inner try, so an
\* exception of a callback reaches the handler at line 542
MonCallbacks ==
    /\ mpc = "callbacks"
    /\ \E raises \in BOOLEAN :
        /\ raises => has_callbacks
        /\ IF raises
           THEN /\ m_success' = FALSE
                /\ m_error' = "callback_error"
                /\ mpc' = "done"
           ELSE /\ mpc' = "check"
                /\ UNCHANGED <<m_success, m_error>>
    /\ UNCHANGED <<m_fn, m_status, m_slept, m_waited, has_callbacks,
                   has_manager>>
    /\ UNCHANGED <<m_data, m_target>>
    /\ UNCHANGED <<execVars, envVars, schedVars, runVars, clsVars, merVars, skpVars, lifeVars, orchVars, waitVars, persistVars>>

\* lines 500-523: completed, then error, then timeout (timeout_minutes is
\* positive, so not before the first sleep), then meridian wait
MonCheck ==
    /\ mpc = "check"
    /\ \E timed_out \in BOOLEAN :
        /\ timed_out => m_slept
        /\ IF ~m_status.is_running
           THEN /\ mpc' = "done"
                /\ UNCHANGED <<m_success, m_error>>
           ELSE IF m_status.error
           THEN /\ m_success' = FALSE
                /\ m_error' = "status_error"
                /\ mpc' = "done"
           ELSE IF timed_out
           THEN /\ m_success' = FALSE
                /\ m_error' = "timeout"
                /\ mpc' = "done"
           ELSE /\ mpc' = IF m_status.wait_needed THEN "wait" ELSE "sleep"
                /\ UNCHANGED <<m_success, m_error>>
    /\ UNCHANGED <<m_fn, m_status, m_slept, m_waited, has_callbacks,
                   has_manager>>
    /\ UNCHANGED <<m_data, m_target>>
    /\ UNCHANGED <<execVars, envVars, schedVars, runVars, clsVars, merVars, skpVars, lifeVars, orchVars, waitVars, persistVars>>

\* lines 523-534: wait_for_meridian_flip(target.ra, target.dec, current_time)
\* returns True after the wait, False when the wait was interrupted
MonWait ==
    /\ mpc = "wait"
    /\ m_waited' = TRUE
    /\ \E wait_success \in BOOLEAN :
        IF wait_success
        THEN /\ mpc' = "sleep"
             /\ UNCHANGED <<m_success, m_error>>
        ELSE /\ m_success' = FALSE
             /\ m_error' = "wait_interrupted"
             /\ mpc' = "done"
    /\ UNCHANGED <<m_fn, m_status, m_slept, has_callbacks, has_manager>>
    /\ UNCHANGED <<m_data, m_target>>
    /\ UNCHANGED <<execVars, envVars, schedVars, runVars, clsVars, merVars, skpVars, lifeVars, orchVars, waitVars, persistVars>>

\* line 536: time.sleep(30), then the next round of the loop
MonSleep ==
    /\ mpc = "sleep"
    /\ m_slept' = TRUE
    /\ mpc' = "poll"
    /\ UNCHANGED <<m_fn, m_status, m_success, m_error, m_waited, has_callbacks,
                   has_manager>>
    /\ UNCHANGED <<m_data, m_target>>
    /\ UNCHANGED <<execVars, envVars, schedVars, runVars, clsVars, merVars, skpVars, lifeVars, orchVars, waitVars, persistVars>>

\* lines 538-541: Ctrl+C inside the loop of monitor_target_observation only
\* sets result['error']; result['success'] keeps its value
MonInterrupt ==
    /\ m_fn = "monitor_target_observation"
    /\ mpc \in {"poll", "callbacks", "check", "sleep"}
    /\ m_error' = "user_interrupted"
    /\ mpc' = "done"
    /\ UNCHANGED <<m_fn, m_status, m_success, m_slept, m_waited, has_callbacks,
                   has_manager>>
    /\ UNCHANGED <<m_data, m_target>>
    /\ UNCHANGED <<execVars, envVars, schedVars, runVars, clsVars, merVars, skpVars, lifeVars, orchVars, waitVars, persistVars>>

\* A monitoring function is called on an executor with or without callbacks
\* and meridian manager, over a live, dry-run or lost connection.
InitMon ==
    /\ retry_config = DefaultRetryConfig
    /\ target_name \in TargetNames
    /\ filters_ok = TRUE
    /\ \E c \in ConnectionStates :
          /\ is_connected = c.is_connected
          /\ dryrun = c.dryrun
    /\ epc = "idle"
    /\ attempt = 0
    /\ success = FALSE
    /\ last_error = NoneMsg
    /\ result = FALSE
    /\ sleeps = 0
    /\ calls = 0
    /\ log = <<>>
    /\ EnvStart
    /\ SchedIdle
    /\ start_time = [n \in TargetIds |-> 0]
    /\ RunIdle
    /\ ClsIdle
    /\ MerIdle
    /\ SkpIdle
    /\ LifeIdle
    /\ OrchIdle
    /\ WaitIdle
    /\ PersistIdle
    /\ m_fn \in {"monitor_target_observation", "_monitor_observation"}
    /\ mpc = "poll"
    /\ m_status = NoStatus
    /\ m_success = TRUE
    /\ m_error = "none"
    /\ m_slept = FALSE
    /\ m_waited = FALSE
    /\ has_callbacks \in BOOLEAN
    /\ has_manager \in BOOLEAN
    /\ \/ /\ m_data \in FileFlags
          /\ m_target = from_dict(m_data)
       \/ /\ m_data = "nofile"
          /\ m_target \in DirectTargets

NextMon ==
    \/ MonInner
    \/ MonPoll
    \/ MonCallbacks
    \/ MonCheck
    \/ MonWait
    \/ MonSleep
    \/ MonInterrupt

SpecMon == InitMon /\ [][NextMon]_vars

\* ------------------------------------------------------- _get_error_type
\* One call of _get_error_type on the text handed in.
Classify ==
    /\ cpc = "call"
    /\ c_kind' = get_error_type(Msg(error_lower(c_text)))
    /\ cpc' = "done"
    /\ UNCHANGED c_text
    /\ UNCHANGED <<execVars, envVars, schedVars, runVars, monVars, merVars, skpVars, lifeVars, orchVars, waitVars, persistVars>>

InitClassify ==
    /\ ExecIdle
    /\ EnvStart
    /\ SchedIdle
    /\ start_time = [n \in TargetIds |-> 0]
    /\ RunIdle
    /\ MonIdle
    /\ MerIdle
    /\ SkpIdle
    /\ LifeIdle
    /\ OrchIdle
    /\ WaitIdle
    /\ PersistIdle
    /\ cpc = "call"
    /\ c_text \in Texts
    /\ c_kind = ""

NextClassify == Classify

SpecClassify == InitClassify /\ [][NextClassify]_vars

\* ------------------------------------------------------ MeridianFlipManager
\* Times are minutes; a datetime is counted from the midnight that starts the
\* day of the current_time argument.
stop_minutes_before == 10
resume_minutes_after == 10
safety_margin == 2
DayMinutes == 24 * 60
HalfDayMinutes == 12 * 60

\* datetime.date(), as a day number
DateOf(t) == t \div DayMinutes

\* calculate_meridian_time: None when the coordinates do not parse; else the
\* time at which lst = ra, with delta_lst brought into -12h..+12h and the
\* result moved by one day onto the date of observation_date
calculate_meridian_time(ra_ok, delta, observation_date) ==
    IF ~ra_ok THEN [some |-> FALSE, t |-> 0]
    ELSE
        LET delta_lst == IF delta > HalfDayMinutes THEN delta - DayMinutes
                         ELSE IF delta < -HalfDayMinutes THEN delta + DayMinutes
                         ELSE delta
            meridian_time == observation_date + delta_lst
        IN [some |-> TRUE,
            t |-> IF DateOf(meridian_time) < DateOf(observation_date)
                      THEN meridian_time + DayMinutes
                  ELSE IF DateOf(meridian_time) > DateOf(observation_date)
                      THEN meridian_time - DayMinutes
                  ELSE meridian_time]

\* The window without the safety margin.
calculate_meridian_flip_window_no_margin(ra_ok, delta, observation_date) ==
    LET mt == calculate_meridian_time(ra_ok, delta, observation_date) IN
    [some |-> mt.some,
     stop_time |-> mt.t - stop_minutes_before,
     meridian_time |-> mt.t,
     resume_time |-> mt.t + resume_minutes_after]

\* calculate_meridian_flip_window
calculate_meridian_flip_window(ra_ok, delta, observation_date) ==
    LET mt == calculate_meridian_time(ra_ok, delta, observation_date) IN
    [some |-> mt.some,
     stop_time |-> mt.t - (stop_minutes_before + safety_margin),
     meridian_time |-> mt.t,
     resume_time |-> mt.t + (resume_minutes_after + safety_margin)]

\* check_meridian_flip_needed
check_meridian_flip_needed(ra_ok, delta, current_time) ==
    LET w == calculate_meridian_flip_window(ra_ok, delta, current_time)
        Info(st, need, has, until) ==
            [status |-> st, wait_needed |-> need, has_wait_until |-> has,
             wait_until |-> until, stop_time |-> w.stop_time,
             meridian_time |-> w.meridian_time, resume_time |-> w.resume_time]
    IN
    IF ~w.some
        THEN [status |-> "error", wait_needed |-> FALSE,
              has_wait_until |-> FALSE, wait_until |-> 0, stop_time |-> 0,
              meridian_time |-> 0, resume_time |-> 0]
    ELSE IF current_time < w.stop_time
        THEN Info("before_window", FALSE, FALSE, 0)
    ELSE IF w.stop_time <= current_time /\ current_time < w.meridian_time
        THEN Info("stop_before_meridian", TRUE, TRUE, w.meridian_time)
    ELSE IF w.meridian_time <= current_time /\ current_time < w.resume_time
        THEN Info("wait_after_meridian", TRUE, TRUE, w.resume_time)
    ELSE Info("after_window", FALSE, FALSE, 0)

\* The current_time arguments and ra - lst differences of the calls: every
\* full hour of the day, every difference of two times of day
ClockTimes == {h * 60 : h \in 0..23}
RawDeltas == (1 - DayMinutes)..(DayMinutes - 1)

\* One call of check_meridian_flip_needed.
CheckFlip ==
    /\ f_pc = "check_call"
    /\ f_info' = check_meridian_flip_needed(f_ra_ok, f_delta, f_current_time)
    /\ f_pc' = "checked"
    /\ UNCHANGED <<f_dryrun, f_ra_ok, f_delta, f_current_time, f_now, f_ret>>
    /\ UNCHANGED <<execVars, envVars, schedVars, runVars, monVars, clsVars,
                   skpVars, lifeVars, orchVars, waitVars, persistVars>>

\* Everything but the meridian manager at rest.
OthersIdle ==
    /\ ExecIdle
    /\ EnvStart
    /\ SchedIdle
    /\ start_time = [n \in TargetIds |-> 0]
    /\ RunIdle
    /\ MonIdle
    /\ ClsIdle
    /\ SkpIdle
    /\ LifeIdle
    /\ OrchIdle
    /\ WaitIdle
    /\ PersistIdle

InitMeridian ==
    /\ OthersIdle
    /\ f_pc = "check_call"
    /\ f_dryrun = FALSE
    /\ f_current_time \in ClockTimes
    /\ \/ f_ra_ok = TRUE /\ f_delta \in RawDeltas
       \/ f_ra_ok = FALSE /\ f_delta = 0
    /\ f_now = f_current_time
    /\ f_info = NoInfo
    /\ f_ret = "none"

NextMeridian == CheckFlip

SpecMeridian == InitMeridian /\ [][NextMeridian]_vars

\* ---- wait_for_meridian_flip
\* The loop test with a one-minute-early variant.
WaitOver_early(clock, wait_until) == clock + 1 >= wait_until

\* line 245: while datetime.now() < wait_until
WaitOver(clock, wait_until) == ~(clock < wait_until)

\* lines 214-241: the check; True at once when no wait is needed
WaitCall ==
    /\ f_pc = "wait_call"
    /\ LET flip_info ==
            check_meridian_flip_needed(f_ra_ok, f_delta, f_current_time) IN
        /\ f_info' = flip_info
        /\ IF ~flip_info.wait_needed
           THEN /\ f_ret' = "True"
                /\ f_pc' = "returned"
           ELSE /\ f_pc' = IF f_dryrun THEN "dry_sleep" ELSE "wait_test"
                /\ UNCHANGED f_ret
    /\ UNCHANGED <<f_dryrun, f_ra_ok, f_delta, f_current_time, f_now>>
    /\ UNCHANGED <<execVars, envVars, schedVars, runVars, monVars, clsVars,
                   skpVars, lifeVars, orchVars, waitVars, persistVars>>

\* lines 239-242: the simulated wait of a dry run
WaitDrySleep ==
    /\ f_pc = "dry_sleep"
    /\ f_ret' = "True"
    /\ f_pc' = "returned"
    /\ UNCHANGED <<f_dryrun, f_ra_ok, f_delta, f_current_time, f_now, f_info>>
    /\ UNCHANGED <<execVars, envVars, schedVars, runVars, monVars, clsVars,
                   skpVars, lifeVars, orchVars, waitVars, persistVars>>

\* lines 245 and 250-252: the loop test
WaitTest ==
    /\ f_pc = "wait_test"
    /\ IF WaitOver(f_now, f_info.wait_until)
       THEN /\ f_ret' = "True"
            /\ f_pc' = "returned"
       ELSE /\ f_pc' = "wait_sleep"
            /\ UNCHANGED f_ret
    /\ UNCHANGED <<f_dryrun, f_ra_ok, f_delta, f_current_time, f_now, f_info>>
    /\ UNCHANGED <<execVars, envVars, schedVars, runVars, monVars, clsVars,
                   skpVars, lifeVars, orchVars, waitVars, persistVars>>

\* line 248: time.sleep(30) has ended
WaitSleep ==
    /\ f_pc = "wait_sleep"
    /\ f_pc' = "wait_test"
    /\ UNCHANGED <<f_dryrun, f_ra_ok, f_delta, f_current_time, f_now, f_info,
                   f_ret>>
    /\ UNCHANGED <<execVars, envVars, schedVars, runVars, monVars, clsVars,
                   skpVars, lifeVars, orchVars, waitVars, persistVars>>

\* Ctrl+C during a sleep: inside the try of the live loop it is caught and
\* the method returns False (lines 254-257); the sleep of the dry run is
\* outside the try, so the KeyboardInterrupt leaves the method
WaitInterrupt ==
    /\ \/ /\ f_pc = "wait_sleep"
          /\ f_ret' = "False"
          /\ f_pc' = "returned"
       \/ /\ f_pc = "dry_sleep"
          /\ f_pc' = "raised"
          /\ UNCHANGED f_ret
    /\ UNCHANGED <<f_dryrun, f_ra_ok, f_delta, f_current_time, f_now, f_info>>
    /\ UNCHANGED <<execVars, envVars, schedVars, runVars, monVars, clsVars,
                   skpVars, lifeVars, orchVars, waitVars, persistVars>>

\* The wall clock during the call
ClockTick ==
    /\ f_pc \in {"wait_test", "wait_sleep", "dry_sleep"}
    /\ f_now < f_current_time + MaxClock
    /\ f_now' = f_now + 1
    /\ UNCHANGED <<f_pc, f_dryrun, f_ra_ok, f_delta, f_current_time, f_info,
                   f_ret>>
    /\ UNCHANGED <<execVars, envVars, schedVars, runVars, monVars, clsVars,
                   skpVars, lifeVars, orchVars, waitVars, persistVars>>

\* A call at one of two times of day for a target up to MaxOffset minutes
\* away from its meridian
InitWait ==
    /\ OthersIdle
    /\ f_pc = "wait_call"
    /\ f_dryrun \in BOOLEAN
    /\ f_current_time \in {0, HalfDayMinutes}
    /\ \/ f_ra_ok = TRUE /\ f_delta \in (-MaxOffset)..MaxOffset
       \/ f_ra_ok = FALSE /\ f_delta = 0
    /\ f_now = f_current_time
    /\ f_info = NoInfo
    /\ f_ret = "none"

WaitThread == WaitCall \/ WaitDrySleep \/ WaitTest \/ WaitSleep

NextWait == WaitThread \/ WaitInterrupt \/ ClockTick

SpecWait == InitWait /\ [][NextWait]_vars

\* The method runs on its own thread of control: its steps are taken.
SpecWaitFair == SpecWait /\ WF_vars(WaitThread)

\* -------------------------------- TargetScheduler.should_skip_target (app)
\* The times of the calls, in hours: start times as in the files, a clock
\* that can be more than an hour past the latest of them, and a stop time
\* that is absent or lies anywhere around them
SkipNows == 0..(MaxStart + OneHour + 1)
SkipStops == {NoTime} \cup (0..(MaxStart + 1))

\* One call of should_skip_target, as made by calculate_schedule_summary.
ShouldSkip ==
    /\ k_pc = "call"
    /\ k_skip' = should_skip_target(k_start, k_now, k_stop)
    /\ k_pc' = "done"
    /\ UNCHANGED <<k_start, k_now, k_stop>>
    /\ UNCHANGED <<execVars, envVars, schedVars, runVars, monVars, clsVars,
                   merVars, lifeVars, orchVars, waitVars, persistVars>>

InitSkip ==
    /\ ExecIdle
    /\ EnvStart
    /\ SchedIdle
    /\ start_time = [n \in TargetIds |-> 0]
    /\ RunIdle
    /\ MonIdle
    /\ ClsIdle
    /\ MerIdle
    /\ LifeIdle
    /\ OrchIdle
    /\ WaitIdle
    /\ PersistIdle
    /\ k_pc = "call"
    /\ k_start \in 0..MaxStart
    /\ k_now \in SkipNows
    /\ k_stop \in SkipStops
    /\ k_skip = FALSE

NextSkip == ShouldSkip

SpecSkip == InitSkip /\ [][NextSkip]_vars

\* ------------------------------ ACP.gui.scheduler.TargetScheduler, the queue
\* add_target on a scheduler that was not started.  ScheduledTarget has no
\* priority field: the priority of the entry stays with the caller, and the
\* list is sorted by start_time alone.
QueueAddTarget ==
    /\ spc = "idle"
    /\ Len(targets) < MaxTargets
    /\ \E t \in 0..MaxStart, p \in 1..MaxPriority :
        LET n == Len(targets) + 1
            st == [start_time EXCEPT ![n] = t] IN
        /\ start_time' = st
        /\ priority' = [priority EXCEPT ![n] = p]
        /\ status' = [status EXCEPT ![n] = Waiting]
        /\ targets' = SortByStart(Append(targets, n), st)
    /\ UNCHANGED <<current_target_index, running, spc, sw_index, sw_target,
                   handed_off>>
    /\ UNCHANGED <<config_targets, stop_time, rpc, ridx, attempted, returned,
                   skip_at_pick, executed, completed_targets, failed_targets,
                   target_results>>
    /\ UNCHANGED <<execVars, envVars, monVars, clsVars, merVars, skpVars, lifeVars, orchVars, waitVars, persistVars>>

\* load_from_file: the list is replaced by the entries of the file, in the
\* order of the file, and sorted by start_time
LoadFromFile ==
    /\ spc = "idle"
    /\ \E k \in 0..MaxInitTargets :
       \E st \in [1..k -> 0..MaxStart], pr \in [1..k -> 1..MaxPriority],
          ss \in [1..k -> {Waiting, Completed}] :
        LET stt == [n \in TargetIds |-> IF n <= k THEN st[n] ELSE 0] IN
        /\ start_time' = stt
        /\ priority' = [n \in TargetIds |-> IF n <= k THEN pr[n] ELSE 1]
        /\ status' = [n \in TargetIds |-> IF n <= k THEN ss[n] ELSE Waiting]
        /\ targets' = SortByStart([i \in 1..k |-> i], stt)
    /\ UNCHANGED <<current_target_index, running, spc, sw_index, sw_target,
                   handed_off>>
    /\ UNCHANGED <<config_targets, stop_time, rpc, ridx, attempted, returned,
                   skip_at_pick, executed, completed_targets, failed_targets,
                   target_results>>
    /\ UNCHANGED <<execVars, envVars, monVars, clsVars, merVars, skpVars, lifeVars, orchVars, waitVars, persistVars>>

\* A scheduler just constructed: an empty queue.
InitQueue ==
    /\ ExecIdle
    /\ EnvStart
    /\ SchedIdle
    /\ start_time = [n \in TargetIds |-> 0]
    /\ RunIdle
    /\ MonIdle
    /\ ClsIdle
    /\ MerIdle
    /\ SkpIdle
    /\ LifeIdle
    /\ OrchIdle
    /\ WaitIdle
    /\ PersistIdle

NextQueue == QueueAddTarget \/ LoadFromFile

SpecQueue == InitQueue /\ [][NextQueue]_vars

\* ----------------------- NewMultiTargetOrchestrator._initialize_components
\* _initialize_components: the configuration manager parses the file (and
\* keeps retry_settings), then the connection manager, the imaging manager,
\* the scheduler and the executor are constructed.  The executor's
\* constructor sets its retry_config to the built-in default, and the only
\* call made on the executor is add_status_callback.
InitializeComponents ==
    /\ opc = "new"
    /\ opc' = "ready"
    /\ retry_config' = DefaultRetryConfig
    /\ has_callbacks' = TRUE
    /\ UNCHANGED retry_settings
    /\ UNCHANGED <<target_name, filters_ok, is_connected, dryrun, epc, attempt,
                   success, last_error, result, sleeps, calls, log>>
    /\ UNCHANGED <<m_fn, mpc, m_status, m_success, m_error, m_slept, m_waited,
                   has_manager, m_data, m_target>>
    /\ UNCHANGED <<envVars, schedVars, runVars, clsVars, merVars, skpVars,
                   lifeVars, waitVars, persistVars>>

\* execute_target_observation, line 261: self.executor.execute_target(target,
\* config.__dict__) on the executor as _initialize_components left it
OrchExecute ==
    /\ opc = "ready"
    /\ epc = "idle"
    /\ epc' = "call"
    /\ target_name' \in TargetNames
    /\ \E c \in ConnectionStates :
          /\ is_connected' = c.is_connected
          /\ dryrun' = c.dryrun
    /\ UNCHANGED <<retry_config, filters_ok, attempt, success, last_error,
                   result, sleeps, calls, log>>
    /\ UNCHANGED <<envVars, schedVars, runVars, monVars, clsVars, merVars,
                   skpVars, lifeVars, orchVars, waitVars, persistVars>>

\* NewMultiTargetOrchestrator(config_file, dry_run) is being constructed on
\* a file with or without a retry_settings section.
InitOrch ==
    /\ ExecIdle
    /\ EnvStart
    /\ SchedIdle
    /\ start_time = [n \in TargetIds |-> 0]
    /\ RunIdle
    /\ MonIdle
    /\ ClsIdle
    /\ MerIdle
    /\ SkpIdle
    /\ LifeIdle
    /\ retry_settings \in RetrySettings
    /\ opc = "new"
    /\ WaitIdle
    /\ PersistIdle

NextOrch ==
    \/ InitializeComponents
    \/ OrchExecute
    \/ BeginExecute
    \/ RetrySleep
    \/ StartAttempt
    \/ MonitorAttempt
    \/ CheckRetry

SpecOrch == InitOrch /\ [][NextOrch]_vars

\* ------------- waiting for a start time (scripts/lib and app/lib/scheduling)
\* Start times and global stop times of the calls, in seconds after the
\* first clock value.
StartSeconds == {0, 20, 45, MaxSeconds - 5}
StopSeconds == {NoTime, 10, 50}

\* "if value" / "if not value" on what a Python call returned
Truthy(value) == value = "True"

\* Everything but the wait for a start time and the queue file at rest.
NoOtherCall ==
    /\ ExecIdle
    /\ EnvStart
    /\ SchedIdle
    /\ start_time = [n \in TargetIds |-> 0]
    /\ RunIdle
    /\ MonIdle
    /\ ClsIdle
    /\ MerIdle
    /\ SkpIdle
    /\ LifeIdle
    /\ OrchIdle

\* datetime.now() between two steps of the waiting thread
SecondsTick ==
    /\ w_pc # "idle"
    /\ w_now < MaxSeconds
    /\ w_now' = w_now + 1
    /\ UNCHANGED <<w_pc, w_target_time, w_global_stop_time, w_dryrun, w_ret,
                   w_wake, w_slept, w_waited, w_outcome>>
    /\ UNCHANGED <<execVars, envVars, schedVars, runVars, monVars, clsVars,
                   merVars, skpVars, lifeVars, orchVars, persistVars>>

\* MultiTargetOrchestrator.wait_for_target_time up to the call of
\* time_manager.wait_until
OldWaitForTargetTime ==
    /\ w_pc = "call"
    /\ IF w_now >= w_target_time
          THEN /\ w_ret' = "True"
               /\ w_pc' = "decide"
               /\ UNCHANGED w_waited
          ELSE /\ w_waited' = TRUE
               /\ w_pc' = "wait_until"
               /\ UNCHANGED w_ret
    /\ UNCHANGED <<w_now, w_target_time, w_global_stop_time, w_dryrun, w_wake,
                   w_slept, w_outcome>>
    /\ UNCHANGED <<execVars, envVars, schedVars, runVars, monVars, clsVars,
                   merVars, skpVars, lifeVars, orchVars, persistVars>>

\* TimeManager.wait_until, lines 11-15: a dry run leaves with a bare return,
\* whose value (None) wait_for_target_time hands on as its own
TimeManagerEnter ==
    /\ w_pc = "wait_until"
    /\ IF w_dryrun
          THEN /\ w_ret' = "None"
               /\ w_pc' = "decide"
          ELSE /\ w_pc' = "loop"
               /\ UNCHANGED w_ret
    /\ UNCHANGED <<w_now, w_target_time, w_global_stop_time, w_dryrun, w_wake,
                   w_slept, w_waited, w_outcome>>
    /\ UNCHANGED <<execVars, envVars, schedVars, runVars, monVars, clsVars,
                   merVars, skpVars, lifeVars, orchVars, persistVars>>

\* TimeManager.wait_until, lines 17-32: the loop breaks once the time has
\* come and the method ends without a return statement; otherwise it sleeps
\* one second
TimeManagerTest ==
    /\ w_pc = "loop"
    /\ IF w_target_time - w_now <= 0
          THEN /\ w_ret' = "None"
               /\ w_pc' = "decide"
               /\ UNCHANGED <<w_wake, w_slept>>
          ELSE /\ w_wake' = w_now + 1
               /\ w_slept' = IF w_slept < 1 THEN 1 ELSE w_slept
               /\ w_pc' = "sleep"
               /\ UNCHANGED w_ret
    /\ UNCHANGED <<w_now, w_target_time, w_global_stop_time, w_dryrun,
                   w_waited, w_outcome>>
    /\ UNCHANGED <<execVars, envVars, schedVars, runVars, monVars, clsVars,
                   merVars, skpVars, lifeVars, orchVars, persistVars>>

\* time.sleep(1) is over
TimeManagerSleep ==
    /\ w_pc = "sleep"
    /\ w_now >= w_wake
    /\ w_pc' = "loop"
    /\ UNCHANGED <<w_now, w_target_time, w_global_stop_time, w_dryrun, w_ret,
                   w_wake, w_slept, w_waited, w_outcome>>
    /\ UNCHANGED <<execVars, envVars, schedVars, runVars, monVars, clsVars,
                   merVars, skpVars, lifeVars, orchVars, persistVars>>

\* Ctrl+C during time.sleep(1): neither wait_until nor wait_for_target_time
\* handles KeyboardInterrupt
TimeManagerInterrupt ==
    /\ w_pc = "sleep"
    /\ w_pc' = "interrupted"
    /\ UNCHANGED <<w_now, w_target_time, w_global_stop_time, w_dryrun, w_ret,
                   w_wake, w_slept, w_waited, w_outcome>>
    /\ UNCHANGED <<execVars, envVars, schedVars, runVars, monVars, clsVars,
                   merVars, skpVars, lifeVars, orchVars, persistVars>>

\* MultiTargetOrchestrator.run, lines 267-272: "if not
\* self.wait_for_target_time(target): continue", else
\* execute_target_observation, which submits the plan
OldRunDecide ==
    /\ w_pc = "decide"
    /\ w_outcome' = IF Truthy(w_ret) THEN "executed" ELSE "skipped"
    /\ w_pc' = "done"
    /\ UNCHANGED <<w_now, w_target_time, w_global_stop_time, w_dryrun, w_ret,
                   w_wake, w_slept, w_waited>>
    /\ UNCHANGED <<execVars, envVars, schedVars, runVars, monVars, clsVars,
                   merVars, skpVars, lifeVars, orchVars, persistVars>>

\* run() has reached a target of the list and calls wait_for_target_time.
InitOldRun ==
    /\ NoOtherCall
    /\ PersistIdle
    /\ w_pc = "call"
    /\ w_now \in {0, 20}
    /\ w_target_time \in StartSeconds
    /\ w_global_stop_time = NoTime
    /\ w_dryrun \in BOOLEAN
    /\ w_ret = "none"
    /\ w_wake = 0
    /\ w_slept = 0
    /\ w_waited = FALSE
    /\ w_outcome = "none"

NextOldRun ==
    \/ OldWaitForTargetTime
    \/ TimeManagerEnter
    \/ TimeManagerTest
    \/ TimeManagerSleep
    \/ TimeManagerInterrupt
    \/ OldRunDecide
    \/ SecondsTick

SpecOldRun == InitOldRun /\ [][NextOldRun]_vars

\* check_interval = 30 (seconds)
check_interval == 30

\* Variant that sleeps for all of the remaining time.
sleep_seconds_whole(interval, remaining_seconds) == remaining_seconds

\* line 119: min(check_interval, remaining_seconds)
sleep_seconds(interval, remaining_seconds) ==
    IF interval <= remaining_seconds THEN interval ELSE remaining_seconds

\* TargetScheduler._wait_until_time, lines 92-96
UntilCall ==
    /\ w_pc = "until_call"
    /\ IF w_dryrun
          THEN /\ w_ret' = "True"
               /\ w_pc' = "returned"
          ELSE /\ w_pc' = "until_test"
               /\ UNCHANGED w_ret
    /\ UNCHANGED <<w_now, w_target_time, w_global_stop_time, w_dryrun, w_wake,
                   w_slept, w_waited, w_outcome>>
    /\ UNCHANGED <<execVars, envVars, schedVars, runVars, monVars, clsVars,
                   merVars, skpVars, lifeVars, orchVars, persistVars>>

\* lines 98-119: one round of the loop, up to the call of time.sleep
UntilTest ==
    /\ w_pc = "until_test"
    /\ IF w_now >= w_target_time
          THEN /\ w_ret' = "True"
               /\ w_pc' = "returned"
               /\ UNCHANGED <<w_wake, w_slept, w_waited>>
       ELSE IF w_global_stop_time # NoTime /\ w_now >= w_global_stop_time
          THEN /\ w_ret' = "False"
               /\ w_pc' = "returned"
               /\ UNCHANGED <<w_wake, w_slept, w_waited>>
          ELSE LET d == sleep_seconds(check_interval, w_target_time - w_now) IN
               /\ w_wake' = w_now + d
               /\ w_slept' = IF w_slept < d THEN d ELSE w_slept
               /\ w_waited' = TRUE
               /\ w_pc' = "until_sleep"
               /\ UNCHANGED w_ret
    /\ UNCHANGED <<w_now, w_target_time, w_global_stop_time, w_dryrun,
                   w_outcome>>
    /\ UNCHANGED <<execVars, envVars, schedVars, runVars, monVars, clsVars,
                   merVars, skpVars, lifeVars, orchVars, persistVars>>

\* line 119: time.sleep is over, back to the top of the loop
UntilWake ==
    /\ w_pc = "until_sleep"
    /\ w_now >= w_wake
    /\ w_pc' = "until_test"
    /\ UNCHANGED <<w_now, w_target_time, w_global_stop_time, w_dryrun, w_ret,
                   w_wake, w_slept, w_waited, w_outcome>>
    /\ UNCHANGED <<execVars, envVars, schedVars, runVars, monVars, clsVars,
                   merVars, skpVars, lifeVars, orchVars, persistVars>>

\* Ctrl+C during time.sleep: the method has no handler, the exception leaves
\* it
UntilInterrupt ==
    /\ w_pc = "until_sleep"
    /\ w_pc' = "interrupted"
    /\ UNCHANGED <<w_now, w_target_time, w_global_stop_time, w_dryrun, w_ret,
                   w_wake, w_slept, w_waited, w_outcome>>
    /\ UNCHANGED <<execVars, envVars, schedVars, runVars, monVars, clsVars,
                   merVars, skpVars, lifeVars, orchVars, persistVars>>

\* A call of _wait_until_time with any start time and stop time.
InitUntil ==
    /\ NoOtherCall
    /\ PersistIdle
    /\ w_pc = "until_call"
    /\ w_now \in {0, 20}
    /\ w_target_time \in StartSeconds
    /\ w_global_stop_time \in StopSeconds
    /\ w_dryrun \in BOOLEAN
    /\ w_ret = "none"
    /\ w_wake = 0
    /\ w_slept = 0
    /\ w_waited = FALSE
    /\ w_outcome = "none"

UntilThread == UntilCall \/ UntilTest \/ UntilWake

NextUntil == UntilThread \/ UntilInterrupt \/ SecondsTick

SpecUntil == InitUntil /\ [][NextUntil]_vars

\* The method runs on its own thread of control and the clock advances.
SpecUntilFair == SpecUntil /\ WF_vars(UntilThread) /\ WF_vars(SecondsTick)

\* ------------------ ScheduledTarget.to_dict / from_dict, save and load
\* A datetime: the date as a day number, the time of day in seconds and the
\* microsecond field.
SecondsPerDay == 24 * 3600
DateTimes ==
    {[day |-> 1, sec |-> x, micro |-> u] :
        x \in {3661, SecondsPerDay - 1}, u \in {0, 500000}}
    \cup {[day |-> d, sec |-> 0, micro |-> 0] : d \in {1, 2}}
\* a <= b on datetimes
TimeLeq(a, b) ==
    \/ a.day < b.day
    \/ a.day = b.day /\ a.sec < b.sec
    \/ a.day = b.day /\ a.sec = b.sec /\ a.micro <= b.micro

\* start_time.strftime('%Y-%m-%d %H:%M:%S'): the date and the hour, minute
\* and second fields as text; the microsecond is not written
strftime(t) ==
    [date |-> t.day, H |-> t.sec \div 3600, M |-> (t.sec % 3600) \div 60,
     S |-> t.sec % 60]

\* datetime.strptime(text, '%Y-%m-%d %H:%M:%S')
strptime(text) ==
    [day |-> text.date, sec |-> text.H * 3600 + text.M * 60 + text.S,
     micro |-> 0]

\* What ImagingPlanPanel.get_plan_config returns: strings, integers and
\* booleans under string keys.
PlanConfigs ==
    {[target |-> "ic 405", dither |-> 0, auto_focus |-> FALSE],
     [target |-> "ngc 4013", dither |-> 5, auto_focus |-> TRUE]}

\* json.dump and json.load on such a dict: each value becomes the JSON value
\* of its type and is read back as the Python value of that JSON type
json_dump(config) ==
    [target |-> [json |-> "string", text |-> config.target],
     dither |-> [json |-> "number", text |-> config.dither],
     auto_focus |-> [json |-> IF config.auto_focus THEN "true" ELSE "false"]]
json_load(object) ==
    [target |-> object.target.text,
     dither |-> object.dither.text,
     auto_focus |-> object.auto_focus.json = "true"]

\* The targets add_target_from_plan can build: the name and the plan of one
\* of the two objects, any start time, any status.
ScheduledTargets ==
    {[name |-> c.target, start_time |-> d, plan_config |-> c, status |-> st] :
        c \in PlanConfigs, d \in DateTimes, st \in Statuses}

\* ScheduledTarget.to_dict
to_dict(t) ==
    [name |-> t.name, start_time |-> strftime(t.start_time),
     plan_config |-> t.plan_config, has_status |-> TRUE, status |-> t.status]

\* Variant that gives every loaded target the default status.
ScheduledTarget_from_dict_default(data) ==
    [name |-> data.name, start_time |-> strptime(data.start_time),
     plan_config |-> data.plan_config, status |-> Waiting]

\* ScheduledTarget.from_dict: status = data.get('status', '等待中')
ScheduledTarget_from_dict(data) ==
    [name |-> data.name, start_time |-> strptime(data.start_time),
     plan_config |-> data.plan_config,
     status |-> IF data.has_status THEN data.status ELSE Waiting]

\* self.targets.sort(key=lambda t: t.start_time) on target objects
InsertTarget(sorted, t) ==
    LET k == Cardinality({i \in 1..Len(sorted) :
                             TimeLeq(sorted[i].start_time,
                                     t.start_time)}) IN
    SubSeq(sorted, 1, k) \o <<t>> \o SubSeq(sorted, k + 1, Len(sorted))

RECURSIVE SortTargets(_)
SortTargets(seq) ==
    IF seq = <<>> THEN <<>>
    ELSE InsertTarget(SortTargets(SubSeq(seq, 1, Len(seq) - 1)),
                      seq[Len(seq)])

\* save_to_file: json.dump([t.to_dict() for t in self.targets])
SaveToFile ==
    /\ p_pc = "queue"
    /\ p_file' = [i \in 1..Len(p_queue) |->
                    [to_dict(p_queue[i]) EXCEPT
                        !.plan_config = json_dump(@)]]
    /\ p_pc' = "saved"
    /\ UNCHANGED <<p_queue, p_loaded>>
    /\ UNCHANGED <<execVars, envVars, schedVars, runVars, monVars, clsVars,
                   merVars, skpVars, lifeVars, orchVars, waitVars>>

\* load_from_file: json.load, from_dict on every record, sort by start_time
LoadBack ==
    /\ p_pc = "saved"
    /\ p_loaded' = SortTargets(
                      [i \in 1..Len(p_file) |->
                          ScheduledTarget_from_dict(
                              [p_file[i] EXCEPT
                                  !.plan_config = json_load(@)])])
    /\ p_pc' = "loaded"
    /\ UNCHANGED <<p_queue, p_file>>
    /\ UNCHANGED <<execVars, envVars, schedVars, runVars, monVars, clsVars,
                   merVars, skpVars, lifeVars, orchVars, waitVars>>

\* Either a queue built by add_target (sorted by start_time) that is about
\* to be saved, or a file of an older version on disk, whose records have no
\* status field.
InitPersist ==
    /\ NoOtherCall
    /\ WaitIdle
    /\ p_loaded = <<>>
    /\ \/ /\ p_pc = "queue"
          /\ p_file = <<>>
          /\ \E k \in 1..MaxSaved :
                /\ p_queue \in [1..k -> ScheduledTargets]
                /\ \A i \in 1..k, j \in 1..k :
                      i < j => TimeLeq(p_queue[i].start_time,
                                       p_queue[j].start_time)
       \/ /\ p_pc = "saved"
          /\ p_queue = <<>>
          /\ \E t \in ScheduledTargets :
                p_file = <<[to_dict(t) EXCEPT
                               !.plan_config = json_dump(@),
                               !.has_status = FALSE]>>

NextPersist == SaveToFile \/ LoadBack

SpecPersist == InitPersist /\ [][NextPersist]_vars

\* ------------------------------ TargetScheduler.start, stop, _schedule_loop
\* start(): nothing when already running, ValueError on an empty queue;
\* otherwise running is set, the event is cleared and a new daemon thread
\* enters _schedule_loop. The thread of an earlier start() is not consulted.
SchedulerStart ==
    /\ ~running
    /\ targets # <<>>
    /\ \E t \in ThreadIds :
        /\ loop_pc[t] = "none"
        /\ \A u \in ThreadIds : u < t => loop_pc[u] # "none"
        /\ loop_pc' = [loop_pc EXCEPT ![t] = "test"]
    /\ running' = TRUE
    /\ shutdown_event' = FALSE
    /\ UNCHANGED <<targets, start_time, status, current_target_index, spc,
                   sw_index, sw_target, handed_off, issued>>
    /\ UNCHANGED <<execVars, envVars, runVars, monVars, clsVars, merVars,
                   skpVars, orchVars, waitVars, persistVars>>

\* stop(): nothing when not running; otherwise running is reset and the event
\* is set. The thread is not joined.
SchedulerStop ==
    /\ running
    /\ running' = FALSE
    /\ shutdown_event' = TRUE
    /\ UNCHANGED <<targets, start_time, status, current_target_index, spc,
                   sw_index, sw_target, handed_off, loop_pc, issued>>
    /\ UNCHANGED <<execVars, envVars, runVars, monVars, clsVars, merVars,
                   skpVars, orchVars, waitVars, persistVars>>

\* while self.running and not self.shutdown_event.is_set()
LoopTest(t) ==
    /\ loop_pc[t] = "test"
    /\ loop_pc' = [loop_pc EXCEPT ![t] =
                      IF running /\ ~shutdown_event THEN "pass" ELSE "exited"]
    /\ UNCHANGED <<schedVars, shutdown_event, issued>>
    /\ UNCHANGED <<execVars, envVars, runVars, monVars, clsVars, merVars,
                   skpVars, orchVars, waitVars, persistVars>>

\* the body of the loop: the pass over the queue, which sends stop_script and
\* start_imaging_plan to the client when it switches to a target
LoopPass(t) ==
    /\ loop_pc[t] = "pass"
    /\ \E switches \in BOOLEAN :
          issued' = IF switches THEN issued \cup {t} ELSE issued
    /\ loop_pc' = [loop_pc EXCEPT ![t] = "wait"]
    /\ UNCHANGED <<schedVars, shutdown_event>>
    /\ UNCHANGED <<execVars, envVars, runVars, monVars, clsVars, merVars,
                   skpVars, orchVars, waitVars, persistVars>>

\* self.shutdown_event.wait(CHECK_INTERVAL): returns when the event is set or
\* after the interval, and the loop test is evaluated again
LoopWait(t) ==
    /\ loop_pc[t] = "wait"
    /\ loop_pc' = [loop_pc EXCEPT ![t] = "test"]
    /\ UNCHANGED <<schedVars, shutdown_event, issued>>
    /\ UNCHANGED <<execVars, envVars, runVars, monVars, clsVars, merVars,
                   skpVars, orchVars, waitVars, persistVars>>

\* The threads that are inside _schedule_loop.
AliveLoops == {t \in ThreadIds : loop_pc[t] \in {"test", "pass", "wait"}}

\* A scheduler that was constructed and given a queue (possibly empty) and
\* was not started yet.
InitLife ==
    /\ ExecIdle
    /\ EnvStart
    /\ RunIdle
    /\ MonIdle
    /\ ClsIdle
    /\ MerIdle
    /\ SkpIdle
    /\ LifeIdle
    /\ OrchIdle
    /\ WaitIdle
    /\ PersistIdle
    /\ \E k \in 0..MaxInitTargets :
       \E st \in [1..k -> 0..MaxStart] :
          /\ \A i \in 1..k, j \in 1..k : i < j => st[i] <= st[j]
          /\ targets = [i \in 1..k |-> i]
          /\ start_time = [n \in TargetIds |-> IF n <= k THEN st[n] ELSE 0]
    /\ status = [n \in TargetIds |-> Waiting]
    /\ current_target_index = NoIndex
    /\ running = FALSE
    /\ spc = "idle"
    /\ sw_index = NoIndex
    /\ sw_target = NoIndex
    /\ handed_off = {}

NextLife ==
    \/ SchedulerStart
    \/ SchedulerStop
    \/ \E t \in ThreadIds : LoopTest(t)
    \/ \E t \in ThreadIds : LoopPass(t)
    \/ \E t \in ThreadIds : LoopWait(t)

SpecLife == InitLife /\ [][NextLife]_vars

\* ------------------------------------------------------- claims, executor
\* Attempt i ended in a failed submission whose classified kind is configured
\* as retryable.
RetryableSubmitFailure(i) ==
    /\ log[i].called
    /\ ~log[i].accepted
    /\ ~log[i].ok
    /\ log[i].kind \in retry_config.retry_on_errors

\* Attempt i failed with a kind that a non-empty retry_on_errors leaves out.
NonRetryableFailure(i) ==
    /\ ~log[i].ok
    /\ retry_config.retry_on_errors # {}
    /\ log[i].kind \notin retry_config.retry_on_errors

\* C1: with retry enabled and max_attempts = N >= 1, when every attempt's
\* submission failed with a retryable kind, execute_target has called
\* start_imaging_plan exactly N times when it returns, and it returns False.
C1_RetryBound ==
    ( /\ epc = "done"
      /\ retry_config.enabled
      /\ retry_config.max_attempts >= 1
      /\ \A i \in 1..Len(log) : RetryableSubmitFailure(i) )
    => ( /\ calls = retry_config.max_attempts
         /\ Len(log) = retry_config.max_attempts
         /\ result = FALSE )

C1_Witness ==
    /\ epc = "done"
    /\ retry_config.enabled
    /\ retry_config.max_attempts = 3
    /\ calls = 3
    /\ sleeps = 2
    /\ result = FALSE
    /\ \A i \in 1..Len(log) : RetryableSubmitFailure(i)

\* C2: with a non-empty retry_on_errors, an attempt that fails with a kind
\* outside it is the last attempt: no sleep and no submission follow it and
\* the result is False (in particular one call and no sleep when the first
\* attempt fails so, whatever max_attempts is).
C2_NonRetryableStops ==
    \A i \in 1..Len(log) :
        NonRetryableFailure(i) =>
            /\ i = Len(log)
            /\ attempt = i
            /\ sleeps = i - 1
            /\ calls <= i
            /\ epc \in {"check", "done"}
            /\ (epc = "done" => result = FALSE)

C2_Witness ==
    /\ epc = "done"
    /\ retry_config.enabled
    /\ retry_config.max_attempts = 3
    /\ Len(log) = 1
    /\ NonRetryableFailure(1)
    /\ log[1].called
    /\ calls = 1
    /\ sleeps = 0
    /\ result = FALSE

\* C3 (as claimed): execute_target returns True when the last attempt's
\* submission was accepted and the observation it monitored ended complete
\* with no error and no interrupt; e.g. two retryable failures followed by an
\* accepted submission give result True.
C3_AcceptedAndCompleteReturnsTrue ==
    ( /\ epc = "done"
      /\ Len(log) >= 1
      /\ log[Len(log)].accepted
      /\ log[Len(log)].poll = "complete"
      /\ ~log[Len(log)].intr )
    => result = TRUE

C34_DecisionIndependentOfName ==
    \A i \in 1..Len(log) :
        ( /\ log[i].raw.some
          /\ retry_config.enabled
          /\ i < retry_config.max_attempts
          /\ retry_config.retry_on_errors # {} )
        => /\ log[i].kind = get_error_type(log[i].raw)
           /\ i < Len(log) => ~ErrorNotRetryable(retry_config, log[i].raw)
           /\ (i = Len(log) /\ epc = "done")
                 => ErrorNotRetryable(retry_config, log[i].raw)

\* ------------------------------------------------------ claims, scheduler
\* C4 (as claimed): at most one target of the queue has status Running.
C4_AtMostOneRunning ==
    Cardinality({i \in 1..Len(targets) : status[targets[i]] = Running}) <= 1

\* C5 (as claimed): no target leaves Completed, Failed or Skipped, and a
\* Running target does not go back to Waiting.
C5_StatusOnlyForward ==
    [][\A n \in TargetIds :
          /\ (status[n] \in {Completed, Failed, Skipped} => status'[n] = status[n])
          /\ (status[n] = Running => status'[n] # Waiting)]_vars

\* C8 (as claimed): every plan submission is preceded, since the previous
\* submission, by an attempt to stop the running remote operation.
C8_StopBeforeEverySubmit ==
    bare_submit = FALSE

\* C10 (as claimed): while the scheduler runs, every queued Waiting target
\* whose start time has come is eventually handed off to (its plan is
\* submitted), unless the scheduler marks it Skipped.
C10_DueTargetEventuallyHandedOff ==
    \A n \in TargetIds :
        [](( /\ running
             /\ \E i \in 1..Len(targets) : targets[i] = n
             /\ status[n] = Waiting
             /\ start_time[n] <= now )
           => <>(n \in handed_off \/ status[n] = Skipped))

\* C31 (as claimed): at each pass of the scheduling loop the target selected
\* as due is the earliest one in queue order whose start time has come and
\* whose status is Waiting; nothing is selected when there is none.
C31_SelectsEarliestWaitingDue ==
    (spc = "pass" /\ running) =>
        LET waiting_due == {i \in 1..Len(targets) :
                               /\ status[targets[i]] = Waiting
                               /\ start_time[targets[i]] <= now} IN
        FirstDue(targets, status, start_time, now) =
            (IF waiting_due = {} THEN NoIndex ELSE Min(waiting_due))

\* C37 (as claimed): whenever current_target_index is set it designates the
\* target last switched to, in every interleaving of the scheduler thread with
\* add_target: a switch makes it designate the target switched to, and no
\* other step changes the target it designates.
C37_IndexDesignatesSwitchedTarget ==
    [][current_target_index' # NoIndex =>
         targets'[current_target_index'] =
            (IF current_target_index' # current_target_index
             THEN sw_target
             ELSE targets[current_target_index])]_vars

\* C38 (as claimed): after stop() followed by start(), at most one
\* scheduling loop thread is alive; a loop that ran before the stop never runs
\* alongside the new one.
C38_AtMostOneLoopAlive ==
    Cardinality(AliveLoops) <= 1

\* -------------------------------------------- claims, orchestrator set-up
\* C33 (as claimed): in a NewMultiTargetOrchestrator run, the retry policy
\* that execute_target applies is the retry_settings section of the loaded
\* configuration file whenever that section is present.
C33_RetrySettingsApplied ==
    (epc # "idle" /\ retry_settings.present) =>
        retry_config = retry_settings.cfg

\* ------------------------------------------------ claims, the queue file
\* C32: for every ScheduledTarget with a whole-second start_time,
\* from_dict(to_dict(t)) equals t in name, start_time, plan_config and
\* status; a queue written by save_to_file and read back by load_from_file
\* holds as many targets, each equal to the one saved in its place when that
\* one has a whole-second start_time; and a record without a status field
\* loads with status Waiting.
C32_RoundTrip ==
    /\ \A i \in 1..Len(p_queue) :
          p_queue[i].start_time.micro = 0 =>
             ScheduledTarget_from_dict(to_dict(p_queue[i])) = p_queue[i]
    /\ p_pc = "loaded" =>
          /\ Len(p_loaded) = Len(p_file)
          /\ \A i \in 1..Len(p_queue) :
                p_queue[i].start_time.micro = 0 => p_loaded[i] = p_queue[i]
          /\ \A i \in 1..Len(p_file) :
                ~p_file[i].has_status =>
                   \E j \in 1..Len(p_loaded) :
                      /\ p_loaded[j].status = Waiting
                      /\ p_loaded[j].name = p_file[i].name
                      /\ strftime(p_loaded[j].start_time)
                            = p_file[i].start_time

C32_Witness ==
    /\ p_pc = "loaded"
    /\ Len(p_queue) = 2
    /\ p_loaded = p_queue
    /\ p_queue[1].status = Completed
    /\ p_queue[2].status = Failed
    /\ p_queue[1].start_time.sec = 3661
    /\ p_queue[2].start_time.sec = SecondsPerDay - 1

\* ------------------------------------- claims, waiting for a start time
\* C36 (as claimed): in MultiTargetOrchestrator.run, when
\* wait_for_target_time has to wait for a future start time and the wait
\* reaches that time without interruption, wait_for_target_time returns True
\* and the target is executed rather than skipped.
C36_WaitedTargetIsExecuted ==
    (w_pc = "done" /\ w_waited /\ ~w_dryrun /\ w_now >= w_target_time) =>
        (w_ret = "True" /\ w_outcome = "executed")

\* C40: _wait_until_time returns True at once in a dry run, without sleeping;
\* it returns True only with now >= target_time and False only with the stop
\* time set and reached and the target time not reached; every round of the
\* loop returns exactly when one of the two conditions holds; no sleep is
\* longer than check_interval or goes beyond the target time; every wake
\* leads back to the test; and as the clock advances the call ends, with
\* True when the test finds the target time reached.
C40_WaitUntilTimeTerminates ==
    /\ []((w_pc = "returned" /\ w_dryrun) =>
             (w_ret = "True" /\ ~w_waited /\ w_slept = 0))
    /\ [][(w_ret' = "True" /\ w_ret # "True") =>
             (w_dryrun \/ w_now >= w_target_time)]_vars
    /\ [][(w_ret' = "False" /\ w_ret # "False") =>
             ( /\ ~w_dryrun
               /\ w_global_stop_time # NoTime
               /\ w_now >= w_global_stop_time
               /\ w_now < w_target_time )]_vars
    /\ [][(w_pc = "until_test" /\ w_pc' # "until_test") =>
             (w_pc' = "returned" <=>
                 \/ w_now >= w_target_time
                 \/ (w_global_stop_time # NoTime
                       /\ w_now >= w_global_stop_time))]_vars
    /\ [](w_slept <= check_interval)
    /\ [](w_pc = "until_sleep" => w_wake <= w_target_time)
    /\ [][(w_pc = "until_sleep" /\ w_pc' # "until_sleep") =>
             w_pc' \in {"until_test", "interrupted"}]_vars
    /\ []((w_pc = "until_test" /\ w_now >= w_target_time) =>
             <>(w_pc = "returned" /\ w_ret = "True"))
    /\ <>(w_pc \in {"returned", "interrupted"})

C40_Witness ==
    /\ w_pc = "returned"
    /\ w_ret = "True"
    /\ ~w_dryrun
    /\ w_waited
    /\ w_slept = check_interval
    /\ w_now = w_target_time

\* -------------------------------------------------- claims, observation run
\* C6 (as claimed): with a global stop time configured, no plan is submitted
\* at a moment when now >= stop_time (a call of start_imaging_plan on a live
\* connection posts the plan).
C6_NoSubmissionAfterStopTime ==
    [][(/\ stop_time # NoTime
        /\ is_connected
        /\ ~dryrun
        /\ calls' = calls + 1) => now < stop_time]_vars

\* C7 (as claimed): a target for which the skip rule held when the loop picked
\* it is not executed: on a live connection start_imaging_plan is not called
\* for it, so no plan is posted for it.
C7_SkippableTargetNotExecuted ==
    (/\ rpc = "execute"
     /\ skip_at_pick
     /\ is_connected
     /\ ~dryrun) => calls = 0

\* C9: the loop picks the targets in non-decreasing (start_time, priority)
\* order, and while the executor works on a target every target picked before
\* it has already returned.
C9_OrderedAndSequential ==
    /\ \A i \in 1..Len(attempted), j \in 1..Len(attempted) :
          i < j =>
            \/ start_time[attempted[i]] < start_time[attempted[j]]
            \/ /\ start_time[attempted[i]] = start_time[attempted[j]]
               /\ priority[attempted[i]] <= priority[attempted[j]]
    /\ (rpc # "idle" /\ epc \notin {"idle", "done"}) =>
          /\ rpc = "execute"
          /\ attempted # <<>>
          /\ \A i \in 1..(Len(attempted) - 1) : attempted[i] \in returned
          /\ attempted[Len(attempted)] \notin returned

\* C9 witness: two targets with equal start time listed with the higher
\* priority number first; the second is being submitted after the first
\* returned.
C9_Witness ==
    /\ Len(attempted) = 2
    /\ start_time[1] = start_time[2]
    /\ priority[1] > priority[2]
    /\ attempted = <<2, 1>>
    /\ epc = "monitor"
    /\ 2 \in returned

\* C11: the failure of a target never ends the run: when the run has ended
\* after some target failed, every target of the list has been processed.
C11_FailureNeverEndsRun ==
    (rpc = "end" /\ failed_targets > 0) =>
        /\ ridx = Len(config_targets)
        /\ returned = {config_targets[i] : i \in 1..Len(config_targets)}

\* C11 witness: a run of two targets ended with both counted failed.
C11_Witness ==
    /\ rpc = "end"
    /\ Len(config_targets) = 2
    /\ failed_targets = 2
    /\ Len(attempted) = 2

\* C12 (as claimed): a run that connected has called disconnect() when it
\* ends, whichever way it ends.
C12_DisconnectedAtEnd ==
    rpc \in {"end", "aborted"} => ~is_connected

\* C13 (as claimed): at the end of the run target_results has as many entries
\* with success = true as completed_targets and as many with success = false
\* as failed_targets.
C13_ResultsMatchCounters ==
    rpc = "end" =>
        /\ Cardinality({i \in 1..Len(target_results) : target_results[i]})
              = completed_targets
        /\ Cardinality({i \in 1..Len(target_results) : ~target_results[i]})
              = failed_targets

\* ------------------------------------------------------ claims, monitoring
\* C14 (as claimed): monitoring never returns success = true for a poll whose
\* status carries an error.
C14_ErrorStatusNeverSuccess ==
    (mpc = "done" /\ m_status.polled /\ m_status.error /\ m_error # "user_interrupted")
        => ~m_success

\* C15 (as claimed): a poll whose status shows the operation no longer running
\* and carries no error makes monitoring return success = true.
C15_CompletedPollReturnsSuccess ==
    (/\ mpc = "done"
     /\ m_status.polled
     /\ ~m_status.is_running
     /\ ~m_status.error
     /\ m_error \notin {"user_interrupted", "callback_error"})
        => m_success

\* C16 (as claimed): a user interrupt received during monitoring makes the
\* call return success = false.
C16_InterruptReturnsFailure ==
    (mpc = "done" /\ m_error = "user_interrupted") => ~m_success

\* C17 (as claimed): an exception raised by a status callback never ends the
\* monitoring loop and never becomes the monitoring result.
C17_CallbackErrorNeverEndsMonitoring ==
    ~(mpc = "done" /\ m_error = "callback_error")

\* C18 (as claimed): when the poll on which monitoring returned reported
\* wait_needed for a running, error-free observation, and the return is due
\* neither to a timeout, a user interrupt nor a callback, the meridian wait
\* was invoked.
C18_WaitNeededInvokesWait ==
    (/\ mpc = "done"
     /\ m_status.polled
     /\ m_status.wait_needed
     /\ m_status.is_running
     /\ ~m_status.error
     /\ m_error \notin {"timeout", "user_interrupted", "callback_error"})
        => m_waited

\* ------------------------------------------------------ claims, classifier
\* C19: a message that contains '401', 'access denied' or 'invalid login', in
\* any letter case and next to any other keywords, is classified as
\* authentication_failed.
C19_AuthenticationFirst ==
    (cpc = "done" /\ c_text.words \cap {"401", "access denied", "invalid login"} # {})
        => c_kind = "authentication_failed"

C19_Witness ==
    /\ cpc = "done"
    /\ c_text.style = "upper"
    /\ c_text.words = {"access denied", "acp", "server"}
    /\ c_kind = "authentication_failed"

\* The rules in the order the contract lists them: every keyword of all and,
\* when any is not empty, one keyword of any.
ErrorKinds ==
    {"authentication_failed", "connection_timeout", "acp_server_error",
     "observatory_offline", "meridian_flip_failed", "observation_timeout",
     "imaging_plan_failed", "status_check_failed", "telescope_error",
     "camera_error", "unknown_error"}
RuleOrder ==
    << [kind |-> "authentication_failed", all |-> {},
        any |-> {"401", "access denied", "invalid login"}],
       [kind |-> "connection_timeout", all |-> {"connection", "timeout"}, any |-> {}],
       [kind |-> "acp_server_error", all |-> {"acp", "server"}, any |-> {}],
       [kind |-> "observatory_offline", all |-> {"observatory", "offline"}, any |-> {}],
       [kind |-> "meridian_flip_failed", all |-> {"meridian", "flip"}, any |-> {}],
       [kind |-> "observation_timeout", all |-> {"observation", "timeout"}, any |-> {}],
       [kind |-> "imaging_plan_failed", all |-> {"imaging", "plan"}, any |-> {}],
       [kind |-> "status_check_failed", all |-> {"status", "check"}, any |-> {}],
       [kind |-> "telescope_error", all |-> {"telescope"},
        any |-> {"not responding", "error"}],
       [kind |-> "camera_error", all |-> {"camera"}, any |-> {"error", "not found"}] >>
RuleMatches(rule, words) ==
    /\ rule.all \subseteq words
    /\ rule.any = {} \/ rule.any \cap words # {}
FirstMatch(words) ==
    LET hits == {i \in 1..Len(RuleOrder) : RuleMatches(RuleOrder[i], words)} IN
    IF hits = {} THEN "unknown_error"
    ELSE RuleOrder[CHOOSE i \in hits : \A j \in hits : i <= j].kind

C21_UnknownErrorRetriedOnlyIfListed ==
    \A i \in 1..Len(log) :
        ( /\ ~log[i].ok
          /\ log[i].kind = "unknown_error"
          /\ "unknown_error" \notin retry_config.retry_on_errors )
        => ( /\ i = Len(log)
             /\ attempt = i
             /\ sleeps = i - 1
             /\ epc \in {"check", "done"} )

\* C22: whenever a meridian time could be computed, wait_needed is true
\* exactly when meridian_time - (stop_minutes_before + safety_margin) <= now <
\* meridian_time + (resume_minutes_after + safety_margin); the status is
\* before_window before that window, stop_before_meridian in it before
\* meridian_time, wait_after_meridian in it from meridian_time on and
\* after_window from its end on; wait_until is present exactly in the two
\* waiting states.
C22_WindowClassification ==
    (f_pc = "checked" /\ f_info.status # "error") =>
        LET mt == f_info.meridian_time
            lo == mt - (stop_minutes_before + safety_margin)
            hi == mt + (resume_minutes_after + safety_margin)
            ct == f_current_time
        IN
        /\ f_info.wait_needed <=> (lo <= ct /\ ct < hi)
        /\ f_info.status = IF ct < lo THEN "before_window"
                           ELSE IF ct < mt THEN "stop_before_meridian"
                           ELSE IF ct < hi THEN "wait_after_meridian"
                           ELSE "after_window"
        /\ f_info.has_wait_until <=>
              f_info.status \in {"stop_before_meridian", "wait_after_meridian"}

C22_Witness ==
    /\ f_pc = "checked"
    /\ f_info.status = "stop_before_meridian"
    /\ f_info.wait_needed
    /\ f_info.has_wait_until
    /\ f_current_time = f_info.meridian_time - (stop_minutes_before + safety_margin)

\* C23 (as claimed): for a target that crosses the meridian 6 hours after
\* now, at any time of day, the check answers before_window with
\* wait_needed = false.
C23_SixHoursAheadIsBeforeWindow ==
    ( /\ f_pc = "checked"
      /\ f_ra_ok
      /\ f_delta \in {6 * 60, 6 * 60 - DayMinutes} )
    => (f_info.status = "before_window" /\ ~f_info.wait_needed)

\* C35 (as claimed): for every now, the meridian_time that
\* check_meridian_flip_needed recomputes is the crossing nearest to now
\* (at most 12 hours away), so a check made inside that crossing's window
\* [stop_time, resume_time) reports wait_needed = true, also when the window
\* spans local midnight.
C35_NearestCrossingAndWait ==
    ( /\ f_pc = "checked"
      /\ f_ra_ok )
    => LET d == IF f_delta > HalfDayMinutes THEN f_delta - DayMinutes
                ELSE IF f_delta < -HalfDayMinutes THEN f_delta + DayMinutes
                ELSE f_delta
           before == stop_minutes_before + safety_margin
           after == resume_minutes_after + safety_margin IN
       /\ f_info.meridian_time - f_current_time <= HalfDayMinutes
       /\ f_current_time - f_info.meridian_time <= HalfDayMinutes
       /\ (-after < d /\ d <= before) => f_info.wait_needed

\* C24: wait_for_meridian_flip returns True when no wait is needed and in a
\* dry run; a live call that had to wait returns True only with
\* now >= wait_until; False is only returned out of the sleep of the live
\* wait loop, on an interrupt; and a live call whose clock has passed
\* wait_until returns.
C24_WaitReturns ==
    /\ [](( /\ f_pc = "returned"
            /\ (~f_info.wait_needed \/ f_dryrun) ) => f_ret = "True")
    /\ [](( /\ f_pc = "returned"
            /\ f_ret = "True"
            /\ f_info.wait_needed
            /\ ~f_dryrun ) => f_now >= f_info.wait_until)
    /\ [][ (f_ret' = "False" /\ f_ret # "False") =>
               (f_pc = "wait_sleep" /\ ~f_dryrun /\ f_info.wait_needed) ]_vars
    /\ [](( /\ f_pc \in {"wait_test", "wait_sleep"}
            /\ f_now >= f_info.wait_until ) => <>(f_pc = "returned"))

C24_Witness ==
    /\ f_pc = "returned"
    /\ f_ret = "True"
    /\ ~f_dryrun
    /\ f_info.status = "stop_before_meridian"
    /\ f_now = f_info.wait_until
    /\ f_now >= f_current_time + 3

\* C25 (as claimed): for a target loaded from a configuration file whose
\* entry sets enable_meridian_wait to false, every meridian check made during
\* monitoring by an executor with a meridian manager answers disabled with
\* wait_needed = false, and monitoring never enters a meridian wait.
C25_DisabledTargetNeverWaits ==
    (m_data = "false" /\ has_manager) =>
        /\ ~m_waited
        /\ mpc # "wait"
        /\ m_status.polled =>
              (m_status.meridian_status = "disabled" /\ ~m_status.wait_needed)

\* C26 (as claimed): in a live run over target A, whose start time is the time the
\* run begins, and target B, which starts later, with a global stop time
\* after the beginning of the run and not after B's start time, B is never
\* executed and at most one target is counted when the run ends.
C26_StopTimeLeavesLaterTargetWaiting ==
    ( /\ rpc = "end"
      /\ ~dryrun
      /\ Len(config_targets) = 2
      /\ start_time[config_targets[1]] = 0
      /\ stop_time # NoTime
      /\ 0 < stop_time
      /\ stop_time <= start_time[config_targets[2]] )
    => ( /\ config_targets[2] \notin executed
         /\ completed_targets + failed_targets <= 1 )

\* C27 (as claimed): a user interrupt delivered while the run waits for a
\* target's start time abandons only that wait; the run is not aborted.
C27_InterruptedWaitGoesOn ==
    [][rpc = "wait" => rpc' # "aborted"]_vars

\* C28: a failed connect() ends the run at once: the loop over the targets is
\* only ever entered with a connection, and a run that ended before its
\* first target has waited for and executed nothing, has sent no stop and no
\* submission, and reports a completed count of 0.
C28_FailedConnectEndsRun ==
    /\ rpc \in {"next", "wait", "execute"} => is_connected
    /\ (rpc = "end" /\ ridx = 0) =>
          /\ attempted = <<>>
          /\ executed = {}
          /\ calls = 0
          /\ ~stop_pending
          /\ ~bare_submit
          /\ completed_targets = 0
          /\ failed_targets = 0

C28_Witness ==
    /\ rpc = "end"
    /\ ridx = 0
    /\ ~dryrun
    /\ ~is_connected
    /\ Len(config_targets) = 2
    /\ completed_targets = 0

\* C29: should_skip_target returns True exactly when now > start_time + 1 hour
\* or a stop time is set and start_time >= stop time.
C29_ShouldSkipExactly ==
    k_pc = "done" =>
        (k_skip <=> ( \/ k_now > k_start + OneHour
                      \/ (k_stop # NoTime /\ k_start >= k_stop) ))

\* exactly one hour past the start time, no stop time in the way: not skipped
C29_Witness ==
    /\ k_pc = "done"
    /\ k_now = k_start + OneHour
    /\ k_stop > k_start
    /\ ~k_skip

\* C30 (as claimed): after any sequence of add_target and load_from_file the
\* queue is sorted ascending by (start_time, priority).
C30_QueueSortedByStartAndPriority ==
    \A i \in 1..Len(targets), j \in 1..Len(targets) :
        i < j => KeyLeq(targets[i], targets[j], start_time, priority)

====
